---- MODULE Spec2Model ----
(***************************************************************************)
(* Model of sismosve: the FUNVISIS refresh scheduler (UpdaterService) and  *)
(* the snapshot store (SismosService).                                     *)
(*                                                                         *)
(* All coroutines run on one asyncio event loop, so a handler is atomic    *)
(* between two awaits.  update_sismos_data has one suspension point, the   *)
(* download at line 86; everything after it (transform, save, statistics)  *)
(* is synchronous.  A refresh cycle is therefore two steps: UpdateBegin    *)
(* (up to the await) and UpdateComplete (the rest).                        *)
(***************************************************************************)
EXTENDS Integers, Sequences, FiniteSets, TLC

(***************************************************************************)
(* Bounds of the model.                                                    *)
(***************************************************************************)
MaxCycles == 2     \* refresh cycles begun in one behaviour

(***************************************************************************)
(* Values.  Python's None is modelled by three values, one per type it     *)
(* stands in for, because TLC only compares values of the same kind.       *)
(***************************************************************************)
NoneStr == "None"                 \* None where a str is expected
NoneObj == [none |-> TRUE]        \* None where a model object is expected
NoneTime == 0                     \* None where a datetime is expected

max_backups == 5

\* Two raw features of the provider feed.  RawF2 has an empty
\* phoneFormatted, which the transformation replaces by state.
RawF1 ==
  [type |-> "Feature",
   geometry |-> [type |-> "Point", coordinates |-> <<-669, 105>>, marcador |-> "rojo"],
   properties |-> [phoneFormatted |-> "10.0 km", phone |-> "4.2",
                   address |-> "Caracas", city |-> "10:30", country |-> "Venezuela",
                   postalCode |-> "05-11-2025", state |-> "10 km",
                   lat |-> "10.5", long |-> "-66.9"]]

RawF2 ==
  [type |-> "Feature",
   geometry |-> [type |-> "Point", coordinates |-> <<-701, 92>>, marcador |-> "verde"],
   properties |-> [phoneFormatted |-> "", phone |-> "3.1",
                   address |-> "Merida", city |-> "08:15", country |-> "Venezuela",
                   postalCode |-> "04-11-2025", state |-> "5 km",
                   lat |-> "9.2", long |-> "-70.1"]]

\* The JSON documents the provider can answer with when the body is valid.
Feeds ==
  { [type |-> "FeatureCollection", features |-> <<RawF1>>],
    [type |-> "FeatureCollection", features |-> <<RawF2, RawF1>>] }

\* A JSON object that is no collection: it has no "features".
NotACollection == [type |-> "FeatureCollection"]

\* A text (a file's content or a response body): either well-formed JSON
\* holding the object json, or text that json.load rejects.
JsonText(obj) == [wellformed |-> TRUE, json |-> obj]
BrokenText == [wellformed |-> FALSE, json |-> [type |-> ""]]

(***************************************************************************)
(* pydantic models (schemas.py).  Validation succeeds when every required  *)
(* field is present; parsing keeps the declared fields only.               *)
(***************************************************************************)
FunvisisPropertyKeys ==
  {"phoneFormatted", "phone", "address", "city", "country", "postalCode",
   "state", "lat", "long"}

SismoPropertyKeys ==
  {"depth", "value", "addressFormatted", "time", "country", "date", "lat", "long"}

FunvisisFeatureValid(f) ==
  /\ {"type", "geometry", "properties"} \subseteq DOMAIN f
  /\ {"type", "coordinates", "marcador"} \subseteq DOMAIN f.geometry
  /\ FunvisisPropertyKeys \subseteq DOMAIN f.properties

FunvisisValid(d) ==
  /\ {"type", "features"} \subseteq DOMAIN d
  /\ \A i \in 1..Len(d.features) : FunvisisFeatureValid(d.features[i])

FunvisisFeature(f) ==
  [type |-> f.type,
   geometry |-> [type |-> f.geometry.type, coordinates |-> f.geometry.coordinates,
                 marcador |-> f.geometry.marcador],
   properties |-> [k \in FunvisisPropertyKeys |-> f.properties[k]]]

FunvisisCollection(d) ==
  [type |-> d.type,
   features |-> [i \in 1..Len(d.features) |-> FunvisisFeature(d.features[i])]]

SismoValid(f) ==
  /\ {"geometry", "properties"} \subseteq DOMAIN f
  /\ "coordinates" \in DOMAIN f.geometry
  /\ SismoPropertyKeys \subseteq DOMAIN f.properties

SismosValid(d) ==
  /\ "features" \in DOMAIN d
  /\ \A i \in 1..Len(d.features) : SismoValid(d.features[i])

Sismo(f) ==
  [type |-> IF "type" \in DOMAIN f THEN f.type ELSE "Sismo",
   geometry |-> [type |-> IF "type" \in DOMAIN f.geometry THEN f.geometry.type ELSE "Point",
                 coordinates |-> f.geometry.coordinates,
                 marcador |-> IF "marcador" \in DOMAIN f.geometry
                              THEN f.geometry.marcador ELSE NoneStr],
   properties |-> [k \in SismoPropertyKeys |-> f.properties[k]]]

SismosCollection(d) ==
  [type |-> IF "type" \in DOMAIN d THEN d.type ELSE "sismos",
   features |-> [i \in 1..Len(d.features) |-> Sismo(d.features[i])]]

(***************************************************************************)
(* SismosService.transform_funvisis_to_sismos                              *)
(***************************************************************************)
\* A transformation that takes the depth from phoneFormatted alone.
TransformFeature_no_fallback(feature) ==
  [type |-> "Sismo",
   geometry |-> [type |-> feature.geometry.type,
                 coordinates |-> feature.geometry.coordinates,
                 marcador |-> feature.geometry.marcador],
   properties |->
     [depth |-> feature.properties.phoneFormatted,
      value |-> feature.properties.phone,
      addressFormatted |-> feature.properties.address,
      time |-> feature.properties.city,
      country |-> feature.properties.country,
      date |-> feature.properties.postalCode,
      lat |-> feature.properties.lat,
      long |-> feature.properties.long]]

\* Lines 75-98.  "phoneFormatted or state": an empty phoneFormatted is
\* false, and then the depth is the state.
TransformFeature(feature) ==
  [type |-> "Sismo",
   geometry |-> [type |-> feature.geometry.type,
                 coordinates |-> feature.geometry.coordinates,
                 marcador |-> feature.geometry.marcador],
   properties |->
     [depth |-> IF feature.properties.phoneFormatted # ""
                THEN feature.properties.phoneFormatted
                ELSE feature.properties.state,
      value |-> feature.properties.phone,
      addressFormatted |-> feature.properties.address,
      time |-> feature.properties.city,
      country |-> feature.properties.country,
      date |-> feature.properties.postalCode,
      lat |-> feature.properties.lat,
      long |-> feature.properties.long]]

\* A transformation that returns the features last first.
transform_funvisis_to_sismos_reversed(funvisis_data) ==
  [type |-> "sismos",
   features |-> [i \in 1..Len(funvisis_data.features) |->
                   TransformFeature(funvisis_data.features[
                     Len(funvisis_data.features) + 1 - i])]]

transform_funvisis_to_sismos(funvisis_data) ==
  [type |-> "sismos",
   features |-> [i \in 1..Len(funvisis_data.features) |->
                   TransformFeature(funvisis_data.features[i])]]

(***************************************************************************)
(* The snapshot store: SismosService.  data_file is the snapshot file and  *)
(* backups the set of files matching <data_file>.backup_*.                 *)
(***************************************************************************)

\* What a call that ended in an exception would hand to its caller.
Raised == [raised |-> TRUE]

\* A load_sismos without its handler: what json.load and the validation
\* raise reaches the caller.
load_sismos_unhandled(file) ==
  IF ~file.exists THEN NoneObj
  ELSE IF ~file.text.wellformed THEN Raised
  ELSE LET data == file.text.json IN
       IF "type" \in DOMAIN data /\ data.type = "FeatureCollection"
       THEN IF FunvisisValid(data)
            THEN transform_funvisis_to_sismos(FunvisisCollection(data))
            ELSE Raised
       ELSE IF SismosValid(data) THEN SismosCollection(data) ELSE Raised

\* A load_sismos that returns the provider's collection as it is.
load_sismos_untransformed(file) ==
  IF ~file.exists THEN NoneObj
  ELSE IF ~file.text.wellformed THEN NoneObj
  ELSE LET data == file.text.json IN
       IF "type" \in DOMAIN data /\ data.type = "FeatureCollection"
       THEN IF FunvisisValid(data) THEN FunvisisCollection(data) ELSE NoneObj
       ELSE IF SismosValid(data) THEN SismosCollection(data) ELSE NoneObj

\* A load_sismos that puts the default tag on every collection it returns.
load_sismos_retagged(file) ==
  IF ~file.exists THEN NoneObj
  ELSE IF ~file.text.wellformed THEN NoneObj
  ELSE LET data == file.text.json IN
       IF "type" \in DOMAIN data /\ data.type = "FeatureCollection"
       THEN IF FunvisisValid(data)
            THEN transform_funvisis_to_sismos(FunvisisCollection(data))
            ELSE NoneObj
       ELSE IF SismosValid(data)
            THEN [SismosCollection(data) EXCEPT !.type = "sismos"]
            ELSE NoneObj

\* SismosService.load_sismos: every exception is caught and turned into None.
load_sismos(file) ==
  IF ~file.exists THEN NoneObj
  ELSE IF ~file.text.wellformed THEN NoneObj
  ELSE LET data == file.text.json IN
       IF "type" \in DOMAIN data /\ data.type = "FeatureCollection"
       THEN IF FunvisisValid(data)
            THEN transform_funvisis_to_sismos(FunvisisCollection(data))
            ELSE NoneObj
       ELSE IF SismosValid(data) THEN SismosCollection(data) ELSE NoneObj

\* A pruning that keeps one backup more than max_backups.
PruneChoices_KeepsOneMore(bks) ==
  IF Cardinality(bks) <= max_backups + 1 THEN {{}}
  ELSE {D \in SUBSET bks :
          /\ Cardinality(D) = Cardinality(bks) - max_backups - 1
          /\ \A d \in D : \A k \in bks \ D : d.mtime <= k.mtime}

\* The sets of backups _cleanup_old_backups may delete when nothing fails:
\* all but the max_backups newest by modification time.  glob returns the
\* files in no particular order and the sort is stable, so files with equal
\* modification times can be cut either way.
PruneChoices(bks) ==
  IF Cardinality(bks) <= max_backups THEN {{}}
  ELSE {D \in SUBSET bks :
          /\ Cardinality(D) = Cardinality(bks) - max_backups
          /\ \A d \in D : \A k \in bks \ D : d.mtime <= k.mtime}

\* What a run of _cleanup_old_backups can delete: a whole choice, or, when
\* an os.remove raises (po = "remove_error"), the files removed before it.
DeleteChoices(bks, po) ==
  LET Whole == PruneChoices(bks) IN
  IF po = "ok" THEN Whole
  ELSE {P \in UNION {SUBSET D : D \in Whole} :
          \E D \in Whole :
            /\ P \subseteq D /\ P # D
            /\ \A d \in P : \A k \in D \ P : d.mtime <= k.mtime}

\* SismosService._cleanup_old_backups: errors are logged, never raised.
cleanup_old_backups(bks, del) == bks \ del

\* A _create_backup that does not prune.
create_backup_unpruned(file, bks, t, bo, del) ==
  IF bo = "copy_error" THEN bks
  ELSE {b \in bks : b.name # t}
         \cup {[name |-> t, text |-> file.text, mtime |-> file.mtime]}

\* SismosService._create_backup at time t.  bo = "copy_error": shutil.copy2
\* raises before the backup exists; the error is logged and pruning skipped.
\* copy2 keeps the modification time of the file it copies, and a backup
\* made in the same second as an earlier one overwrites it.
create_backup(file, bks, t, bo, del) ==
  IF bo = "copy_error" THEN bks
  ELSE cleanup_old_backups(
         {b \in bks : b.name # t}
           \cup {[name |-> t, text |-> file.text, mtime |-> file.mtime]},
         del)

\* The backups as they are when _cleanup_old_backups starts.
BackupsAfterCopy(file, bks, t) ==
  {b \in bks : b.name # t} \cup {[name |-> t, text |-> file.text, mtime |-> file.mtime]}

\* A write that reports success without having written the collection.
write_data_file_skipped(file, sismos, t, wo) ==
  CASE wo = "ok" -> file
    [] wo = "open_error" -> file
    [] wo = "write_error" -> [exists |-> TRUE, text |-> BrokenText, mtime |-> t]

\* The writing of the snapshot (lines 59-60).  open(.., "w") truncates the
\* file before json.dump writes it: wo = "open_error" fails before the
\* truncation, wo = "write_error" after it, leaving a partial text.
write_data_file(file, sismos, t, wo) ==
  CASE wo = "ok" -> [exists |-> TRUE, text |-> JsonText(sismos), mtime |-> t]
    [] wo = "open_error" -> file
    [] wo = "write_error" -> [exists |-> TRUE, text |-> BrokenText, mtime |-> t]

\* A save_sismos that gives up when the backup cannot be copied.
save_sismos_backup_required(file, bks, sismos, create, t, env) ==
  IF create /\ file.exists /\ env.backup = "copy_error"
  THEN [data_file |-> file, backups |-> bks, ret |-> FALSE]
  ELSE [data_file |-> write_data_file(file, sismos, t, env.write),
        backups |-> IF create /\ file.exists
                    THEN create_backup(file, bks, t, env.backup, env.del)
                    ELSE bks,
        ret |-> (env.write = "ok")]

\* SismosService.save_sismos at time t under the environment env: the
\* resulting file and backups, and the boolean it returns.
save_sismos(file, bks, sismos, create, t, env) ==
  LET bks1 == IF create /\ file.exists
              THEN create_backup(file, bks, t, env.backup, env.del)
              ELSE bks
  IN [data_file |-> write_data_file(file, sismos, t, env.write),
      backups |-> bks1,
      ret |-> (env.write = "ok")]

\* The environments a call of save_sismos can meet: whether the copy of the
\* backup and the pruning fail, what the pruning deletes, how the write ends.
SaveEnvs(file, bks, create, t) ==
  LET Writes == {"ok", "open_error", "write_error"}
      Pruned == UNION {{[prune |-> po, del |-> d] :
                          d \in DeleteChoices(BackupsAfterCopy(file, bks, t), po)} :
                       po \in {"ok", "remove_error"}}
  IN IF create /\ file.exists
     THEN {[backup |-> "copy_error", prune |-> "ok", del |-> {}, write |-> wo] :
             wo \in Writes}
          \cup {[backup |-> "ok", prune |-> p.prune, del |-> p.del, write |-> wo] :
                  p \in Pruned, wo \in Writes}
     ELSE {[backup |-> "ok", prune |-> "ok", del |-> {}, write |-> wo] : wo \in Writes}

(***************************************************************************)
(* UpdaterService._download_funvisis_data.  A response of the provider:    *)
(* net is how the connection ended, status the HTTP status, ctype the      *)
(* content type and body the text.                                         *)
(***************************************************************************)
Response(net, status, ctype, body) ==
  [net |-> net, status |-> status, ctype |-> ctype, body |-> body]

Responses ==
  {Response("timeout", 0, "", BrokenText),
   Response("connection_error", 0, "", BrokenText),
   Response("ok", 500, "application/json", BrokenText),
   Response("ok", 200, "application/json", BrokenText),
   Response("ok", 200, "application/json", JsonText(NotACollection))}
  \cup {Response("ok", 200, "application/json", JsonText(d)) : d \in Feeds}

\* response.json() (line 154) raises for a content type that is not JSON
\* and for a body that is no JSON.
response_json(resp) ==
  IF resp.ctype = "application/json" /\ resp.body.wellformed
  THEN resp.body.json ELSE Raised

\* json.loads(text_data) (lines 157-160), the second attempt.
json_loads(text) == IF text.wellformed THEN text.json ELSE Raised

\* A download that gives up when response.json() raises.
download_funvisis_data_no_fallback(resp) ==
  IF resp.net # "ok" THEN NoneObj
  ELSE IF resp.status # 200 THEN NoneObj
  ELSE LET data == response_json(resp)
       IN IF data = Raised THEN NoneObj
          ELSE IF ~FunvisisValid(data) THEN NoneObj
          ELSE FunvisisCollection(data)

\* Every failure is caught inside: asyncio.TimeoutError and any Exception
\* (connection error, json.loads on a broken body, pydantic validation).
download_funvisis_data(resp) ==
  IF resp.net # "ok" THEN NoneObj
  ELSE IF resp.status # 200 THEN NoneObj
  ELSE LET first == response_json(resp)
           data == IF first = Raised THEN json_loads(resp.body) ELSE first
       IN IF data = Raised THEN NoneObj
          ELSE IF ~FunvisisValid(data) THEN NoneObj
          ELSE FunvisisCollection(data)

(***************************************************************************)
(* State.                                                                  *)
(***************************************************************************)
VARIABLES
  is_running,     \* UpdaterService.is_running
  last_update,    \* UpdaterService.last_update (NoneTime or a clock value)
  update_stats,   \* UpdaterService.update_stats
  scheduler,      \* the AsyncIOScheduler: is it started, the ids of its jobs
  data_file,      \* the snapshot file
  backups,        \* the backup files
  now,            \* the wall clock when it was last read, in seconds
  cycles,         \* the coroutines inside update_sismos_data, by caller
  last            \* the operation the last step performed, and how it ended

vars == <<is_running, last_update, update_stats, scheduler, data_file, backups,
          now, cycles, last>>

\* The callers of update_sismos_data: the recurring job, start_scheduler
\* (line 57) and force_update (line 125).  One call of each kind is followed
\* at a time; calls of different kinds overlap freely.
Origins == {"timer", "start", "force"}

IdleCycle == [pc |-> "idle"]

\* The record of a step: the operation, who called the cycle it belongs to,
\* how it ended, what it returned to its caller ("raised" when it ended in
\* an exception), the collection it fetched and the failure it logged.
Event(op, origin, outcome, ret, raw, msg) ==
  [op |-> op, origin |-> origin, outcome |-> outcome, ret |-> ret, raw |-> raw,
   msg |-> msg]

\* The snapshots a deployment can start from: no file, or the provider's
\* own shape put there by hand.
InitialFiles ==
  {[exists |-> FALSE, text |-> BrokenText, mtime |-> 0],
   [exists |-> TRUE,
    text |-> JsonText([type |-> "FeatureCollection", features |-> <<RawF2>>]),
    mtime |-> 0]}

\* UpdaterService.__init__ and SismosService.__init__
Init ==
  /\ is_running = FALSE
  /\ last_update = NoneTime
  /\ update_stats = [total_updates |-> 0, successful_updates |-> 0,
                     failed_updates |-> 0, last_error |-> NoneStr]
  /\ scheduler = [running |-> FALSE, jobs |-> {}]
  /\ data_file \in InitialFiles
  /\ backups = {}
  /\ now = 1
  /\ cycles = [c \in Origins |-> IdleCycle]
  /\ last = Event("init", "none", "none", "None", NoneObj, NoneStr)

(***************************************************************************)
(* UpdaterService.update_sismos_data                                       *)
(***************************************************************************)

\* Lines 81-86: total_updates is counted, then the coroutine waits for the
\* download.  Its caller, of kind origin, is suspended with it.
BeginUpdate(origin) ==
  /\ cycles[origin].pc = "idle"
  /\ update_stats.total_updates < MaxCycles
  /\ update_stats' = [update_stats EXCEPT !.total_updates = @ + 1]
  /\ cycles' = [cycles EXCEPT ![origin] = [pc |-> "download"]]

\* A handler that logs the exception and raises it again, as the handler
\* of start_scheduler does.
handle_exception_reraise(stats, e) ==
  [update_stats |-> stats, ret |-> "raised"]

\* Lines 116-120: the handler of any exception raised at lines 85-114.
handle_exception(stats, e) ==
  [update_stats |-> [stats EXCEPT !.failed_updates = @ + 1, !.last_error = e],
   ret |-> "False"]

\* A failed download that also resets the store: the snapshot is replaced
\* by an empty collection and the time of the last success is forgotten.
download_failed_clears(stats, lu, file, bks, t) ==
  [update_stats |-> [stats EXCEPT !.failed_updates = @ + 1],
   last_update |-> NoneTime,
   data_file |-> [exists |-> TRUE,
                  text |-> JsonText([type |-> "sismos", features |-> <<>>]),
                  mtime |-> t],
   backups |-> bks,
   ret |-> "False", outcome |-> "fetch_failed", raw |-> NoneObj,
   msg |-> "No se pudieron obtener datos de FUNVISIS"]

\* A failed download that forgets the time of the last success.
download_failed_forgets(stats, lu, file, bks, t) ==
  [update_stats |-> [stats EXCEPT !.failed_updates = @ + 1],
   last_update |-> NoneTime, data_file |-> file, backups |-> bks,
   ret |-> "False", outcome |-> "fetch_failed", raw |-> NoneObj,
   msg |-> "No se pudieron obtener datos de FUNVISIS"]

\* A success that clears the error of an earlier cycle.
count_success_clears_error(stats) ==
  [stats EXCEPT !.successful_updates = @ + 1, !.last_error = NoneStr]

\* Line 100: the save returned True.
count_success(stats) == [stats EXCEPT !.successful_updates = @ + 1]

\* Lines 88-91: the download gave nothing.
download_failed(stats, lu, file, bks, t) ==
  [update_stats |-> [stats EXCEPT !.failed_updates = @ + 1],
   last_update |-> lu, data_file |-> file, backups |-> bks,
   ret |-> "False", outcome |-> "fetch_failed", raw |-> NoneObj,
   msg |-> "No se pudieron obtener datos de FUNVISIS"]

\* Lines 86-120: the cycle from the answer resp of the provider to its
\* return, at time t.  exc names the place where an exception nobody
\* expected is raised, if the cycle gets there: "transform" (lines 94-96),
\* "stats" (lines 104-109, after the save has succeeded) or "none".
update_after_download(stats, lu, file, bks, t, resp, exc, env) ==
  LET funvisis_data == download_funvisis_data(resp) IN
  IF funvisis_data = NoneObj
  THEN download_failed(stats, lu, file, bks, t)
  ELSE IF exc = "transform"
  THEN LET h == handle_exception(stats, "transform error") IN
       [update_stats |-> h.update_stats,
        last_update |-> lu, data_file |-> file, backups |-> bks,
        ret |-> h.ret, outcome |-> "exception", raw |-> funvisis_data,
        msg |-> "transform error"]
  ELSE LET sismos_data == transform_funvisis_to_sismos(funvisis_data)
           saved == save_sismos(file, bks, sismos_data, TRUE, t, env)
       IN IF saved.ret
          THEN LET stats1 == count_success(stats) IN
               IF exc = "stats"
               THEN LET h == handle_exception(stats1, "stats error") IN
                    [update_stats |-> h.update_stats,
                     last_update |-> t, data_file |-> saved.data_file,
                     backups |-> saved.backups,
                     ret |-> h.ret, outcome |-> "exception_after_save",
                     raw |-> funvisis_data, msg |-> "stats error"]
               ELSE [update_stats |-> stats1,
                     last_update |-> t, data_file |-> saved.data_file,
                     backups |-> saved.backups,
                     ret |-> "True", outcome |-> "ok",
                     raw |-> funvisis_data, msg |-> NoneStr]
          ELSE [update_stats |-> [stats EXCEPT !.failed_updates = @ + 1],
                last_update |-> lu, data_file |-> saved.data_file,
                backups |-> saved.backups,
                ret |-> "False", outcome |-> "save_failed",
                raw |-> funvisis_data, msg |-> "Error al guardar datos"]

\* The places where a cycle that got the answer resp can meet an exception
\* nobody expected, and the environments its save can meet: a cycle whose
\* download fails gets to neither, one that fails in the transformation
\* does not get to the save.
ExceptionChoices(resp) ==
  IF download_funvisis_data(resp) = NoneObj THEN {"none"}
  ELSE {"none", "transform", "stats"}

EnvChoices(file, bks, t, resp, exc) ==
  IF download_funvisis_data(resp) = NoneObj \/ exc = "transform"
  THEN {[backup |-> "ok", prune |-> "ok", del |-> {}, write |-> "ok"]}
  ELSE SaveEnvs(file, bks, TRUE, t)

\* The download of the cycle called by c ends and the cycle runs to its
\* return, at a time t that is the time of the last reading of the clock or
\* later.  The caller resumes in the same step: force_update returns what
\* the cycle returned, start_scheduler logs and returns.
UpdateComplete(c, t) ==
  /\ cycles[c].pc = "download"
  /\ now' = t
  /\ \E resp \in Responses :
       \E exc \in ExceptionChoices(resp) :
         \E env \in EnvChoices(data_file, backups, t, resp, exc) :
           LET r == update_after_download(update_stats, last_update, data_file,
                                          backups, t, resp, exc, env)
           IN /\ update_stats' = r.update_stats
              /\ last_update' = r.last_update
              /\ data_file' = r.data_file
              /\ backups' = r.backups
              /\ last' = Event("cycle", c, r.outcome, r.ret, r.raw, r.msg)
  /\ cycles' = [cycles EXCEPT ![c] = IdleCycle]
  /\ UNCHANGED <<is_running, scheduler>>

\* A recurring job that is given up after a failed cycle.
TimerFire_UntilFailure ==
  /\ update_stats.failed_updates = 0
  /\ scheduler.running
  /\ "update_sismos" \in scheduler.jobs
  /\ BeginUpdate("timer")
  /\ last' = Event("update", "timer", "awaiting", "None", NoneObj, NoneStr)
  /\ UNCHANGED <<is_running, last_update, scheduler, data_file, backups, now>>

\* The recurring job fires (IntervalTrigger, lines 44-50).  The job is
\* added without max_instances, so the scheduler runs one instance at most.
TimerFire ==
  /\ scheduler.running
  /\ "update_sismos" \in scheduler.jobs
  /\ BeginUpdate("timer")
  /\ last' = Event("update", "timer", "awaiting", "None", NoneObj, NoneStr)
  /\ UNCHANGED <<is_running, last_update, scheduler, data_file, backups, now>>

\* A force_update that also marks the scheduler running.
ForceUpdate_MarksRunning ==
  /\ BeginUpdate("force")
  /\ is_running' = TRUE
  /\ last' = Event("update", "force", "awaiting", "None", NoneObj, NoneStr)
  /\ UNCHANGED <<last_update, scheduler, data_file, backups, now>>

\* UpdaterService.force_update
ForceUpdate ==
  /\ BeginUpdate("force")
  /\ last' = Event("update", "force", "awaiting", "None", NoneObj, NoneStr)
  /\ UNCHANGED <<is_running, last_update, scheduler, data_file, backups, now>>

(***************************************************************************)
(* UpdaterService.start_scheduler.  reg is how the registration ends:      *)
(* "ok", "add_job_error" (add_job raises) or "start_error" (the job is     *)
(* added and scheduler.start raises).                                      *)
(***************************************************************************)

\* A start_scheduler without its guard.
AlreadyRunning_Unchecked == FALSE

\* Line 38
AlreadyRunning == is_running

\* A start_scheduler that does not run the first update.
FirstUpdate_Skipped == UNCHANGED <<update_stats, cycles>>

\* Line 57: the first update, which start_scheduler waits for.
FirstUpdate == BeginUpdate("start")

\* A start_scheduler that marks itself running before it registers the job.
RegistrationFails_MarkedRunning(reg) ==
  /\ scheduler' = IF reg = "start_error"
                  THEN [scheduler EXCEPT !.jobs = @ \cup {"update_sismos"}]
                  ELSE scheduler
  /\ is_running' = TRUE
  /\ last' = Event("start", "start", "registration_failed", "raised", NoneObj,
                   IF reg = "start_error" THEN "scheduler start error"
                   ELSE "add_job error")
  /\ UNCHANGED <<last_update, update_stats, data_file, backups, now, cycles>>

\* Lines 44-53 and 63-65: add_job or scheduler.start raises; the handler
\* logs the exception and raises it again.
RegistrationFails(reg) ==
  /\ scheduler' = IF reg = "start_error"
                  THEN [scheduler EXCEPT !.jobs = @ \cup {"update_sismos"}]
                  ELSE scheduler
  /\ last' = Event("start", "start", "registration_failed", "raised", NoneObj,
                   IF reg = "start_error" THEN "scheduler start error"
                   ELSE "add_job error")
  /\ UNCHANGED <<is_running, last_update, update_stats, data_file, backups, now,
                 cycles>>

StartScheduler(reg) ==
  IF AlreadyRunning
  THEN /\ last' = Event("start", "start", "noop", "None", NoneObj, NoneStr)
       /\ UNCHANGED <<is_running, last_update, update_stats, scheduler, data_file,
                      backups, now, cycles>>
  ELSE IF reg # "ok"
  THEN RegistrationFails(reg)
  ELSE /\ scheduler' = [running |-> TRUE,
                        jobs |-> scheduler.jobs \cup {"update_sismos"}]
       /\ is_running' = TRUE
       /\ FirstUpdate
       /\ last' = Event("start", "start",
                        IF cycles'["start"].pc = "download" THEN "awaiting"
                        ELSE "returned",
                        "None", NoneObj, NoneStr)
       /\ UNCHANGED <<last_update, data_file, backups, now>>

(***************************************************************************)
(* UpdaterService.stop_scheduler.  sd is how scheduler.shutdown ends: "ok", *)
(* "ok_job_cancelled" or "shutdown_error", which the handler at lines      *)
(* 76-77 logs.                                                             *)
(***************************************************************************)

\* A stop_scheduler that leaves the scheduler as it is.
Shutdown_Skipped == UNCHANGED scheduler

\* Line 73: the scheduler stops and its jobs are gone.
Shutdown == scheduler' = [running |-> FALSE, jobs |-> {}]

\* A shutdown that cancels every update in flight.
RunningJobs_AllCancelled(sd) == [c \in Origins |-> IdleCycle]

\* Line 73: shutdown(wait=False) returns without waiting for the job the
\* scheduler is running.  What becomes of that job is the scheduler's
\* business: it is left to finish, or its coroutine is cancelled at the
\* await of line 86 and ends there, in a CancelledError that neither
\* "except Exception" (lines 116, 175) catches.  The updates awaited by
\* start_scheduler and force_update are no jobs of the scheduler.
RunningJobs(sd) ==
  IF sd = "ok_job_cancelled" THEN [cycles EXCEPT !["timer"] = IdleCycle]
  ELSE cycles

StopScheduler(sd) ==
  IF ~is_running
  THEN /\ last' = Event("stop", "none", "noop", "None", NoneObj, NoneStr)
       /\ UNCHANGED <<is_running, last_update, update_stats, scheduler, data_file,
                      backups, now, cycles>>
  ELSE IF sd # "shutdown_error"
  THEN /\ Shutdown
       /\ cycles' = RunningJobs(sd)
       /\ is_running' = FALSE
       /\ last' = Event("stop", "none", "stopped", "None", NoneObj, NoneStr)
       /\ UNCHANGED <<last_update, update_stats, data_file, backups, now>>
  ELSE /\ last' = Event("stop", "none", "shutdown_failed", "None", NoneObj,
                        "shutdown error")
       /\ UNCHANGED <<is_running, last_update, update_stats, scheduler, data_file,
                      backups, now, cycles>>

(***************************************************************************)
(* UpdaterService.get_update_status, a read of the service's fields.       *)
(***************************************************************************)

\* The seconds between two firings of the recurring job (line 21).
update_interval == 300

\* datetime.isoformat: the text of a time, one text for each time.
isoformat(t) == [isoformat |-> t]

\* A next update computed whenever the scheduler is marked running.
get_next_update_time_running_only ==
  IF ~is_running THEN NoneObj
  ELSE isoformat(last_update + update_interval)

\* Lines 179-190.  A datetime is never false, so "not self.last_update"
\* is the test for None.
get_next_update_time ==
  IF ~is_running \/ last_update = NoneTime THEN NoneObj
  ELSE isoformat(last_update + update_interval)

\* Lines 127-135
get_update_status ==
  [is_running |-> is_running,
   update_interval |-> update_interval,
   last_update |-> IF last_update # NoneTime THEN isoformat(last_update)
                   ELSE NoneObj,
   stats |-> update_stats,
   next_update |-> get_next_update_time]

Next ==
  \/ TimerFire
  \/ ForceUpdate
  \/ \E c \in Origins, t \in {now, now + 1} : UpdateComplete(c, t)
  \/ \E reg \in {"ok", "add_job_error", "start_error"} : StartScheduler(reg)
  \/ \E sd \in {"ok", "ok_job_cancelled", "shutdown_error"} : StopScheduler(sd)

Spec == Init /\ [][Next]_vars

(***************************************************************************)
(* The store on its own: calls of SismosService.save_sismos with the       *)
(* service's other fields left alone.  SavesSpec follows MaxSaves calls in *)
(* which no file operation fails; StoreSpec follows MaxStoreSaves calls    *)
(* in which any of them can fail, from the directories earlier runs leave. *)
(***************************************************************************)
MaxSaves == 6
MaxStoreSaves == 3

\* The collections a caller saves.
Saved == {transform_funvisis_to_sismos(FunvisisCollection(d)) : d \in Feeds}

\* The record of a call of save_sismos: calls is the number of calls so
\* far and n the number of those that found a snapshot to back up; created
\* lists the names of the backups copied so far, oldest first; sismos is
\* the collection this call was given, existed, backup, prune and write
\* tell what it found and met, ret what it returned.
SaveEvent(calls, n, created, sismos, existed, env, ret) ==
  [op |-> "save", calls |-> calls, n |-> n, created |-> created,
   sismos |-> sismos, existed |-> existed, backup |-> env.backup,
   prune |-> env.prune, write |-> env.write, ret |-> ret]

NoSaveYet ==
  [op |-> "save", calls |-> 0, n |-> 0, created |-> <<>>, sismos |-> NoneObj,
   existed |-> FALSE, backup |-> "ok", prune |-> "ok", write |-> "ok",
   ret |-> TRUE]

SavesSoFar == IF last.op = "save" THEN last ELSE NoSaveYet

\* save_sismos(sismos) at time t, create_backup left at its default.
Save(sismos, t, env) ==
  /\ SavesSoFar.calls < MaxSaves
  /\ LET r == save_sismos(data_file, backups, sismos, TRUE, t, env)
         copied == data_file.exists /\ env.backup = "ok"
     IN /\ data_file' = r.data_file
        /\ backups' = r.backups
        /\ last' = SaveEvent(SavesSoFar.calls + 1,
                             SavesSoFar.n + (IF data_file.exists THEN 1 ELSE 0),
                             IF copied THEN Append(SavesSoFar.created, t)
                             ELSE SavesSoFar.created,
                             sismos, data_file.exists, env, r.ret)
  /\ now' = t
  /\ UNCHANGED <<is_running, last_update, update_stats, scheduler, cycles>>

\* The environments in which no file operation fails.
CleanEnvs(file, bks, t) ==
  {env \in SaveEnvs(file, bks, TRUE, t) :
     env.backup = "ok" /\ env.prune = "ok" /\ env.write = "ok"}

SavesNext ==
  \E sismos \in Saved, t \in {now, now + 1} :
    \E env \in CleanEnvs(data_file, backups, t) : Save(sismos, t, env)

SavesSpec == Init /\ [][SavesNext]_vars

\* UpdaterService.__init__: the service before its first call.
FreshService ==
  /\ is_running = FALSE
  /\ last_update = NoneTime
  /\ update_stats = [total_updates |-> 0, successful_updates |-> 0,
                     failed_updates |-> 0, last_error |-> NoneStr]
  /\ scheduler = [running |-> FALSE, jobs |-> {}]
  /\ now = 1
  /\ cycles = [c \in Origins |-> IdleCycle]

\* The backups that max_backups saves, one a second up to the second 0,
\* have left next to a snapshot written at the second 0.
OldBackups ==
  {[name |-> 0 - i,
    text |-> JsonText(transform_funvisis_to_sismos(
                        FunvisisCollection(CHOOSE d \in Feeds : TRUE))),
    mtime |-> 0 - i - 1] : i \in 0..(max_backups - 1)}

\* The directories the store can start from: those of Init, with no
\* backup, and one that earlier saves have filled.
StoreInit ==
  /\ FreshService
  /\ \/ data_file \in InitialFiles /\ backups = {}
     \/ /\ data_file \in {[exists |-> TRUE, text |-> JsonText(c), mtime |-> 0] :
                             c \in Saved}
        /\ backups = OldBackups
  /\ last = NoSaveYet

StoreNext ==
  /\ SavesSoFar.calls < MaxStoreSaves
  /\ \E sismos \in Saved, t \in {now, now + 1} :
       \E env \in SaveEnvs(data_file, backups, TRUE, t) : Save(sismos, t, env)

StoreSpec == StoreInit /\ [][StoreNext]_vars

(***************************************************************************)
(* SismosService.load_sismos on its own: in LoadSpec one call on any of    *)
(* the files of LoadFiles, in RoundTripSpec one call on the file a call of *)
(* save_sismos has just written.                                           *)
(***************************************************************************)
MaxFeatures == 2

\* The features a document can list: two of the provider's shape, two of
\* the normalized shape, one of neither.
FeatureKinds ==
  {RawF1, RawF2, TransformFeature(RawF1), TransformFeature(RawF2),
   [type |-> "Feature"]}

FeatureLists == UNION {[1..n -> FeatureKinds] : n \in 0..MaxFeatures}

\* The JSON objects a snapshot file can hold: a list of features under one
\* of three tags or under none, and objects without "features".
Documents ==
  {[type |-> tag, features |-> fs] :
     tag \in {"FeatureCollection", "sismos", "GeoJSON"}, fs \in FeatureLists}
  \cup {[features |-> fs] : fs \in FeatureLists}
  \cup {NotACollection, [type |-> "sismos"]}

LoadFiles ==
  {[exists |-> FALSE, text |-> BrokenText, mtime |-> 0],
   [exists |-> TRUE, text |-> BrokenText, mtime |-> 0]}
  \cup {[exists |-> TRUE, text |-> JsonText(d), mtime |-> 0] : d \in Documents}

\* The normalized collections a caller can hold: what SismosCollection
\* makes of the documents it accepts, under any tag.
NormalizedCollections ==
  {SismosCollection(d) : d \in {e \in Documents : SismosValid(e)}}

\* The record of a call: saved is the collection the last save_sismos was
\* given and ret what it returned, result what load_sismos returned.
LoadEvent(op, saved, ret, result) ==
  [op |-> op, saved |-> saved, ret |-> ret, result |-> result]

LoadInit ==
  /\ FreshService
  /\ data_file \in LoadFiles
  /\ backups = {}
  /\ last = LoadEvent("init", NoneObj, FALSE, NoneObj)

\* A caller calls save_sismos(c) at time t.
SaveCollection(c, t, env) ==
  /\ last.op = "init"
  /\ LET r == save_sismos(data_file, backups, c, TRUE, t, env)
     IN /\ data_file' = r.data_file
        /\ backups' = r.backups
        /\ last' = LoadEvent("save", c, r.ret, NoneObj)
  /\ now' = t
  /\ UNCHANGED <<is_running, last_update, update_stats, scheduler, cycles>>

\* A caller calls load_sismos() and gets its result.
Load ==
  /\ last.op \in {"init", "save"}
  /\ last' = LoadEvent("load", last.saved, last.ret, load_sismos(data_file))
  /\ UNCHANGED <<is_running, last_update, update_stats, scheduler, data_file,
                 backups, now, cycles>>

LoadSpec == LoadInit /\ [][Load]_vars

\* A save_sismos of any normalized collection into one of the directories
\* of Init, and a load_sismos after it.
RoundTripInit ==
  /\ FreshService
  /\ data_file \in InitialFiles
  /\ backups = {}
  /\ last = LoadEvent("init", NoneObj, FALSE, NoneObj)

RoundTripNext ==
  \/ Load
  \/ \E c \in NormalizedCollections :
       \E env \in SaveEnvs(data_file, backups, TRUE, now) :
         SaveCollection(c, now, env)

RoundTripSpec == RoundTripInit /\ [][RoundTripNext]_vars

(***************************************************************************)
(* Properties of the refresh cycle and of the scheduler.                   *)
(***************************************************************************)
total_updates == update_stats.total_updates
successful_updates == update_stats.successful_updates
failed_updates == update_stats.failed_updates

NoCycleInFlight == \A c \in Origins : cycles[c].pc = "idle"
CycleEnds == last'.op = "cycle"
ServiceState == <<is_running, last_update, update_stats, scheduler, data_file,
                  backups, cycles>>

\* C1: every cycle adds one to total_updates when it begins and one to
\* exactly one of successful_updates and failed_updates when it ends, so
\* that total_updates = successful_updates + failed_updates whenever no
\* cycle is in flight.
C1_CountedOnce ==
  /\ [][/\ total_updates' # total_updates =>
             /\ total_updates' = total_updates + 1
             /\ successful_updates' = successful_updates
             /\ failed_updates' = failed_updates
        /\ CycleEnds =>
             /\ total_updates' = total_updates
             /\ (successful_updates' - successful_updates)
                  + (failed_updates' - failed_updates) = 1]_vars
  /\ [](NoCycleInFlight => total_updates = successful_updates + failed_updates)

\* C2: after a cycle that failed, last_error is the message of that failure.
C2_LastErrorOfLatestFailure ==
  (last.op = "cycle" /\ last.ret = "False") =>
     (update_stats.last_error # NoneStr /\ update_stats.last_error = last.msg)

\* C3: a cycle never ends in an exception: it returns a boolean, and when
\* it returns False the failure has been counted.
C3_NoExceptionEscapes ==
  [][CycleEnds =>
       /\ last'.ret \in {"True", "False"}
       /\ last'.outcome \in {"exception", "exception_after_save"} =>
            (last'.ret = "False" /\ failed_updates' = failed_updates + 1)
       /\ last'.ret = "False" => failed_updates' = failed_updates + 1]_vars

C3_Witness ==
  last.op = "cycle" /\ last.outcome \in {"exception", "exception_after_save"}

\* C4: a cycle whose download fails counts one failure and returns False
\* and leaves the snapshot, the backups and last_update as they were.
C4_FetchFailureLeavesStore ==
  [][(CycleEnds /\ last'.outcome = "fetch_failed") =>
       /\ failed_updates' = failed_updates + 1
       /\ successful_updates' = successful_updates
       /\ last'.ret = "False"
       /\ data_file' = data_file
       /\ backups' = backups
       /\ last_update' = last_update]_vars

C4_Witness ==
  /\ last.op = "cycle" /\ last.outcome = "fetch_failed"
  /\ data_file.exists /\ backups # {} /\ last_update # NoneTime

\* C5: a cycle whose save fails counts one failure and leaves what
\* load_sismos returns as it was before the cycle.
C5_SaveFailureKeepsSnapshot ==
  [][(CycleEnds /\ last'.outcome = "save_failed") =>
       /\ failed_updates' = failed_updates + 1
       /\ load_sismos(data_file') = load_sismos(data_file)]_vars

\* C6: a cycle that fetched the collection R and saved it adds one to
\* successful_updates, sets last_update to its time and leaves a snapshot
\* from which load_sismos returns the transformation of R; the feature
\* with phone "4.2" alone gives one Sismo with value "4.2".
C6_SuccessfulCycle ==
  [][(CycleEnds /\ last'.outcome \in {"ok", "exception_after_save"}) =>
       /\ successful_updates' = successful_updates + 1
       /\ last_update' = now'
       /\ load_sismos(data_file') = transform_funvisis_to_sismos(last'.raw)
       /\ last'.raw.features = <<RawF1>> =>
            /\ Len(load_sismos(data_file').features) = 1
            /\ load_sismos(data_file').features[1].properties.value = "4.2"]_vars

C6_Witness ==
  /\ last.op = "cycle" /\ last.outcome = "ok"
  /\ last.raw.features = <<RawF1>>
  /\ last_update = now

\* C7: start_scheduler on a stopped scheduler, when the registration
\* succeeds, registers the job, marks the scheduler running and begins one
\* cycle; it returns only when that cycle has returned, and total_updates,
\* which never decreases, has then grown.
C7_StartRunsOneCycle ==
  [][/\ (last'.op = "start" /\ ~is_running /\ last'.outcome # "registration_failed") =>
          /\ "update_sismos" \in scheduler'.jobs
          /\ scheduler'.running
          /\ is_running'
          /\ last'.outcome = "awaiting"
          /\ cycles["start"].pc = "idle" /\ cycles'["start"].pc = "download"
          /\ total_updates' = total_updates + 1
     /\ (cycles["start"].pc = "download" /\ cycles'["start"].pc = "idle") =>
          /\ last'.op = "cycle" /\ last'.origin = "start"
          /\ last'.ret \in {"True", "False"}
     /\ total_updates' >= total_updates]_vars

C7_Witness ==
  /\ last.op = "cycle" /\ last.origin = "start"
  /\ is_running /\ total_updates >= 1

\* C8: start_scheduler on a running scheduler changes nothing: no job, no
\* cycle, the same flag, counters, last_error and last_update.
C8_StartWhileRunningIsNoop ==
  [][(last'.op = "start" /\ is_running) =>
       (last'.outcome = "noop" /\ UNCHANGED ServiceState)]_vars

C8_Witness == last.op = "start" /\ last.outcome = "noop" /\ is_running

\* C9: when add_job or scheduler.start fails, start_scheduler raises, the
\* scheduler is not marked running and no cycle is run.
C9_FailedRegistration ==
  [][(last'.op = "start" /\ last'.outcome = "registration_failed") =>
       /\ last'.ret = "raised"
       /\ ~is_running'
       /\ ~scheduler'.running
       /\ UNCHANGED <<update_stats, cycles, last_update, data_file, backups>>]_vars

C9_Witness ==
  last.op = "start" /\ last.outcome = "registration_failed" /\ scheduler.jobs # {}

\* C10 as stated: after stop_scheduler the scheduler is marked stopped and
\* the recurring job begins no cycle; on a stopped scheduler it changes
\* nothing.
C10_StopAlwaysStops ==
  [][/\ last'.op = "stop" => (~is_running' /\ ~scheduler'.running)
     /\ (last'.op = "stop" /\ ~is_running) => UNCHANGED ServiceState
     /\ (last'.op = "update" /\ last'.origin = "timer") => is_running]_vars

\* C10, amended: after a stop_scheduler whose shutdown succeeds the
\* scheduler is marked stopped, and the recurring job begins a cycle only
\* while the scheduler is marked running; when the shutdown raises,
\* stop_scheduler returns with nothing changed, the scheduler still marked
\* running; on a stopped scheduler it changes nothing.
C10_StopStopsUnlessShutdownFails ==
  [][/\ (last'.op = "stop" /\ last'.outcome # "shutdown_failed") =>
          (~is_running' /\ ~scheduler'.running)
     /\ (last'.op = "stop" /\ last'.outcome = "shutdown_failed") =>
          (is_running' /\ UNCHANGED ServiceState)
     /\ (last'.op = "stop" /\ ~is_running) =>
          (last'.outcome = "noop" /\ UNCHANGED ServiceState)
     /\ (last'.op = "update" /\ last'.origin = "timer") => is_running]_vars

C10_Witness ==
  last.op = "stop" /\ last.outcome = "stopped" /\ total_updates >= 1

\* A cycle that ends while the scheduler is marked stopped has the effects
\* of any other cycle: a failure or a success is counted, and a success
\* has written the snapshot and set last_update.
CompletesAsUsual ==
  /\ total_updates' = total_updates
  /\ (successful_updates' - successful_updates)
       + (failed_updates' - failed_updates) >= 1
  /\ last'.outcome = "ok" =>
       /\ successful_updates' = successful_updates + 1
       /\ last_update' = now'
       /\ load_sismos(data_file') = transform_funvisis_to_sismos(last'.raw)

C13_CyclesSequential ==
  Cardinality({c \in Origins : cycles[c].pc = "download"}) <= 1

\* C14: the status reports a next_update exactly when the scheduler is
\* marked running and a successful update has set last_update, and then
\* next_update is the time update_interval seconds after last_update;
\* otherwise next_update is null.
C14_NextUpdate ==
  LET status == get_update_status IN
  /\ status.next_update # NoneObj <=>
       (status.is_running /\ status.last_update # NoneObj)
  /\ status.last_update # NoneObj <=> last_update # NoneTime
  /\ status.next_update # NoneObj =>
       status.next_update = isoformat(last_update + update_interval)

C14_Witness ==
  /\ is_running /\ last_update # NoneTime /\ successful_updates >= 1
  /\ get_update_status.next_update = isoformat(last_update + update_interval)

(***************************************************************************)
(* Properties of the store.                                                *)
(***************************************************************************)
BackupNames == {b.name : b \in backups}

\* The names of the k backups copied last.
LastCreated(created, k) ==
  {created[i] : i \in (Len(created) - k + 1)..Len(created)}

\* C15: after more than max_backups calls of save_sismos that each found a
\* snapshot to back up, and in which no file operation failed, exactly
\* max_backups backups remain, and they are the ones copied last.
C15_FiveNewestBackupsRemain ==
  (last.op = "save" /\ last.n > max_backups) =>
     /\ Cardinality(backups) = max_backups
     /\ BackupNames = LastCreated(last.created, max_backups)

\* C16 as stated: in every reachable state there are at most max_backups
\* backups next to the one snapshot, and a pruning that fails does not
\* make save_sismos fail.
C16_AtMostFiveBackups ==
  /\ [](Cardinality(backups) <= max_backups)
  /\ [][last'.prune # "ok" => (last'.ret <=> last'.write = "ok")]_vars

\* C16, amended: after a save_sismos whose copy and pruning went through
\* there are at most max_backups backups; more than max_backups are there
\* after a call only when its pruning failed or when it copied nothing and
\* left the backups as they were; and a pruning that fails does not make
\* save_sismos fail: it returns True exactly when its write went through.
C16_AtMostFiveBackupsAfterPruning ==
  [][/\ (last'.existed /\ last'.backup = "ok" /\ last'.prune = "ok") =>
          Cardinality(backups') <= max_backups
     /\ Cardinality(backups') > max_backups =>
          (last'.prune # "ok" \/ backups' = backups)
     /\ last'.prune # "ok" =>
          /\ last'.ret <=> last'.write = "ok"
          /\ last'.write = "ok" => load_sismos(data_file') \in Saved]_vars

C16_Witness ==
  /\ last.calls >= 1 /\ last.prune = "remove_error" /\ last.ret
  /\ Cardinality(backups) > max_backups

\* C17: a save_sismos that finds a snapshot and whose copy goes through
\* leaves a backup named after the second of the call that holds the text
\* and the modification time the snapshot had before the call, whatever
\* the call then writes; the pruning runs after the copy, on the backups
\* with the new one among them: when it goes through, max_backups backups
\* at most are left and every one deleted is no newer than every one kept.
\* The new backup can only be missing afterwards if the pruning deleted it.
C17_BackupBeforeOverwrite ==
  [][(last'.existed /\ last'.backup = "ok") =>
       LET copy == [name |-> now', text |-> data_file.text,
                    mtime |-> data_file.mtime]
           after == {b \in backups : b.name # now'} \cup {copy}
           deleted == after \ backups'
       IN /\ backups' \subseteq after
          /\ \/ copy \in backups'
             \/ /\ Cardinality(after) > max_backups
                /\ \A k \in backups' : copy.mtime <= k.mtime
          /\ last'.prune = "ok" =>
               /\ Cardinality(backups') <= max_backups
               /\ Cardinality(after) <= max_backups => deleted = {}
               /\ \A d \in deleted : \A k \in backups' : d.mtime <= k.mtime]_vars

C17_Witness ==
  /\ last.calls >= 1 /\ last.existed /\ last.backup = "ok" /\ last.prune = "ok"
  /\ last.write = "ok"
  /\ \E b \in backups : b.name = now /\ b.text # data_file.text
  /\ Cardinality(backups) = max_backups
  /\ \E b \in OldBackups : b \notin backups

\* C18: a save_sismos whose backup cannot be copied leaves the backups as
\* they were and goes on to the write: when the write goes through it
\* returns True and the snapshot holds the collection it was given; it
\* returns False only when the write itself fails.
C18_BackupFailureIsNotFatal ==
  [][(last'.existed /\ last'.backup = "copy_error") =>
       /\ backups' = backups
       /\ last'.ret <=> last'.write = "ok"
       /\ last'.write = "ok" =>
            /\ data_file'.exists /\ data_file'.mtime = now'
            /\ load_sismos(data_file') = last'.sismos]_vars

C18_Witness ==
  /\ last.calls >= 1 /\ last.existed /\ last.backup = "copy_error" /\ last.ret
  /\ load_sismos(data_file) = last.sismos
  /\ backups # {}

(***************************************************************************)
(* Properties of load_sismos.                                              *)
(***************************************************************************)
Loaded == last.op = "load"
Parseable == data_file.exists /\ data_file.text.wellformed
Document == data_file.text.json
TaggedRaw == "type" \in DOMAIN Document /\ Document.type = "FeatureCollection"

\* A collection of the normalized shape: what SismosCollection parses to,
\* every feature with the normalized properties and no other.
Normalized(c) ==
  /\ SismosValid(c)
  /\ c = SismosCollection(c)
  /\ \A i \in 1..Len(c.features) :
       DOMAIN c.features[i].properties = SismoPropertyKeys

\* C19 as stated: load_sismos never raises; it returns None when the file
\* does not exist, when its text is no JSON, or when the document
\* validates neither as the normalized nor as the provider's collection,
\* and a collection otherwise.
C19_NoneIffNoShapeValidates ==
  Loaded =>
    /\ last.result # Raised
    /\ last.result = NoneObj <=>
         \/ ~Parseable
         \/ ~FunvisisValid(Document) /\ ~SismosValid(Document)
    /\ last.result # NoneObj => Normalized(last.result)

\* C19, amended: load_sismos never raises; it returns None when the file
\* does not exist, when its text is no JSON, or when the document does not
\* validate as the one shape its tag selects, the provider's for the tag
\* "FeatureCollection" and the normalized one for any other tag or none;
\* it returns a collection otherwise.
C19_NoneIffTaggedShapeFails ==
  Loaded =>
    /\ last.result # Raised
    /\ last.result = NoneObj <=>
         \/ ~Parseable
         \/ TaggedRaw /\ ~FunvisisValid(Document)
         \/ ~TaggedRaw /\ ~SismosValid(Document)
    /\ last.result # NoneObj => Normalized(last.result)

C19_Witness ==
  /\ Loaded /\ last.result = NoneObj /\ Parseable
  /\ "features" \in DOMAIN Document /\ Len(Document.features) >= 1
  /\ ~FunvisisValid(Document) /\ ~SismosValid(Document)

\* C20 as stated: whenever the file holds a valid collection R of the
\* provider's shape, load_sismos returns the transformation of R; and
\* whatever it returns, if not None, is a normalized collection.
C20_RawIsTransformed ==
  Loaded =>
    /\ (Parseable /\ FunvisisValid(Document)) =>
         last.result = transform_funvisis_to_sismos(FunvisisCollection(Document))
    /\ last.result \notin {NoneObj, Raised} => Normalized(last.result)

\* C20, amended: whenever the file holds a valid collection R of the
\* provider's shape under the tag "FeatureCollection", load_sismos returns
\* the transformation of R; and whatever it returns, if not None, is a
\* normalized collection, never one of the provider's shape.
C20_TaggedRawIsTransformed ==
  Loaded =>
    /\ (Parseable /\ TaggedRaw /\ FunvisisValid(Document)) =>
         last.result = transform_funvisis_to_sismos(FunvisisCollection(Document))
    /\ last.result \notin {NoneObj, Raised} => Normalized(last.result)

C20_Witness ==
  /\ Loaded /\ Parseable /\ TaggedRaw /\ FunvisisValid(Document)
  /\ Document.features = <<RawF2, RawF1>>
  /\ last.result.features[2].properties.value = "4.2"
  /\ last.result.features[1].properties.depth = "5 km"

\* C21 as stated: for every normalized collection c, a save_sismos(c) that
\* returned True followed by load_sismos() gives a collection equal to c:
\* same tag, same features with the same fields in the same order.
C21_RoundTrip ==
  (Loaded /\ last.saved # NoneObj /\ last.ret) => last.result = last.saved

\* C21, amended: the same for every normalized collection c whose tag is
\* not "FeatureCollection".
C21_RoundTripUnlessTaggedRaw ==
  (Loaded /\ last.saved # NoneObj /\ last.ret
     /\ last.saved.type # "FeatureCollection") =>
    /\ last.result = last.saved
    /\ last.result.type = last.saved.type
    /\ Len(last.result.features) = Len(last.saved.features)

C21_Witness ==
  /\ Loaded /\ last.saved # NoneObj /\ last.ret
  /\ last.saved.type = "GeoJSON"
  /\ last.saved.features = <<TransformFeature(RawF2), TransformFeature(RawF1)>>
  /\ last.result = last.saved

(***************************************************************************)
(* Properties of transform_funvisis_to_sismos, applied by load_sismos to   *)
(* the provider's collection that the file holds.                          *)
(***************************************************************************)
RawLoaded == Loaded /\ Parseable /\ TaggedRaw /\ FunvisisValid(Document)
RawCollection == FunvisisCollection(Document)

\* C22: the transformation of a collection of n features is a normalized
\* collection of n features, and its i-th feature is what the
\* transformation makes of the i-th feature of the input taken alone; the
\* file that held the input is as it was.
C22_TransformKeepsOrder ==
  RawLoaded =>
    /\ Normalized(last.result)
    /\ Len(last.result.features) = Len(RawCollection.features)
    /\ \A i \in 1..Len(RawCollection.features) :
         last.result.features[i] =
           transform_funvisis_to_sismos(
             [type |-> "FeatureCollection",
              features |-> <<RawCollection.features[i]>>]).features[1]
    /\ data_file \in LoadFiles

C22_Witness ==
  /\ RawLoaded /\ Document.features = <<RawF1, RawF2>>
  /\ Len(last.result.features) = 2
  /\ last.result.features[1].properties.value = "4.2"
  /\ last.result.features[2].properties.value = "3.1"

\* The fields of the i-th feature of the result that are plain copies.
CopiedFields(i) ==
  LET raw == RawCollection.features[i]
      sismo == last.result.features[i]
  IN /\ sismo.properties.value = raw.properties.phone
     /\ sismo.properties.addressFormatted = raw.properties.address
     /\ sismo.properties.time = raw.properties.city
     /\ sismo.properties.country = raw.properties.country
     /\ sismo.properties.date = raw.properties.postalCode
     /\ sismo.properties.lat = raw.properties.lat
     /\ sismo.properties.long = raw.properties.long
     /\ sismo.geometry.type = raw.geometry.type
     /\ sismo.geometry.coordinates = raw.geometry.coordinates
     /\ sismo.geometry.marcador = raw.geometry.marcador

\* C23 as stated: every feature of the result copies the fields of its raw
\* feature, the depth being the phoneFormatted.
C23_DepthIsPhoneFormatted ==
  RawLoaded =>
    \A i \in 1..Len(RawCollection.features) :
      /\ CopiedFields(i)
      /\ last.result.features[i].properties.depth =
           RawCollection.features[i].properties.phoneFormatted

\* C23, amended: every feature of the result copies the fields of its raw
\* feature, the depth being the phoneFormatted when that is not empty and
\* the state when it is.
C23_DepthFallsBackToState ==
  RawLoaded =>
    \A i \in 1..Len(RawCollection.features) :
      /\ CopiedFields(i)
      /\ last.result.features[i].properties.depth =
           IF RawCollection.features[i].properties.phoneFormatted # ""
           THEN RawCollection.features[i].properties.phoneFormatted
           ELSE RawCollection.features[i].properties.state

C23_Witness ==
  /\ RawLoaded /\ Document.features = <<RawF2>>
  /\ last.result.features[1].properties.depth = "5 km"
  /\ last.result.features[1].geometry.coordinates = <<-701, 92>>

(***************************************************************************)
(* The queries: SismosService.get_sismos_stats, get_sismos_by_magnitude,   *)
(* get_recent_sismos, and the endpoints of main.py that call them on what  *)
(* load_sismos returns.                                                    *)
(***************************************************************************)
MaxEvents == 3

\* float(s) on the texts of the model, in tenths; every other text raises
\* ValueError.
FloatTable ==
  ("4.2" :> 42) @@ ("3.1" :> 31) @@ ("6.0" :> 60) @@ ("10.5" :> 105)
    @@ ("9.2" :> 92) @@ ("-66.9" :> -669) @@ ("-70.1" :> -701)

ParsesAsFloat(s) == s \in DOMAIN FloatTable
float(s) == FloatTable[s]

\* int(s) on the parts of the dates and times of the model; every other
\* text raises ValueError.
IntTable ==
  ("02" :> 2) @@ ("04" :> 4) @@ ("05" :> 5) @@ ("08" :> 8) @@ ("10" :> 10)
    @@ ("11" :> 11) @@ ("15" :> 15) @@ ("30" :> 30) @@ ("31" :> 31)
    @@ ("2025" :> 2025)

\* date_str.split("-") and time_str.split(":") on the texts of the model.
SplitTable ==
  ("05-11-2025" :> <<"05", "11", "2025">>)
    @@ ("04-11-2025" :> <<"04", "11", "2025">>)
    @@ ("31-02-2025" :> <<"31", "02", "2025">>)
    @@ ("2025/11/06" :> <<"2025/11/06">>)
    @@ ("10:30" :> <<"10", "30">>)
    @@ ("08:15" :> <<"08", "15">>)
    @@ ("10.30" :> <<"10.30">>)

split(s) == SplitTable[s]

DaysInMonth(year, month) ==
  IF month = 2
  THEN IF year % 4 = 0 /\ (year % 100 # 0 \/ year % 400 = 0) THEN 29 ELSE 28
  ELSE IF month \in {4, 6, 9, 11} THEN 30 ELSE 31

\* datetime(year, month, day, hour, minute) raises ValueError outside
\* these ranges.
DatetimeValid(year, month, day, hour, minute) ==
  /\ year \in 1..9999 /\ month \in 1..12
  /\ day \in 1..DaysInMonth(year, month)
  /\ hour \in 0..23 /\ minute \in 0..59

\* A datetime as a number that grows with it.
datetime(year, month, day, hour, minute) ==
  (((year * 12 + (month - 1)) * 31 + (day - 1)) * 24 + hour) * 60 + minute

datetime_min == datetime(1, 1, 1, 0, 0)

\* A parsing that puts what it cannot read after every date.
parse_datetime_newest(date_str, time_str) ==
  LET d == split(date_str)
      t == split(time_str)
  IN IF /\ Len(d) = 3 /\ Len(t) = 2
        /\ \A i \in 1..3 : d[i] \in DOMAIN IntTable
        /\ \A i \in 1..2 : t[i] \in DOMAIN IntTable
        /\ DatetimeValid(IntTable[d[3]], IntTable[d[2]], IntTable[d[1]],
                         IntTable[t[1]], IntTable[t[2]])
     THEN datetime(IntTable[d[3]], IntTable[d[2]], IntTable[d[1]],
                   IntTable[t[1]], IntTable[t[2]])
     ELSE datetime(2999, 12, 31, 23, 59)

\* SismosService._parse_datetime: the unpacking fails unless the date has
\* three parts and the time two, int fails on a part that is no number,
\* datetime on a number out of range; the bare except turns each into
\* datetime.min.
parse_datetime(date_str, time_str) ==
  LET d == split(date_str)
      t == split(time_str)
  IN IF /\ Len(d) = 3 /\ Len(t) = 2
        /\ \A i \in 1..3 : d[i] \in DOMAIN IntTable
        /\ \A i \in 1..2 : t[i] \in DOMAIN IntTable
        /\ DatetimeValid(IntTable[d[3]], IntTable[d[2]], IntTable[d[1]],
                         IntTable[t[1]], IntTable[t[2]])
     THEN datetime(IntTable[d[3]], IntTable[d[2]], IntTable[d[1]],
                   IntTable[t[1]], IntTable[t[2]])
     ELSE datetime_min

\* The key of max and of sorted.
DateKey(s) == parse_datetime(s.properties.date, s.properties.time)

\* A max that returns the last of the items whose key is the greatest.
get_latest_earthquake_last(sismos) ==
  IF Len(sismos) = 0 THEN NoneObj
  ELSE sismos[CHOOSE i \in 1..Len(sismos) :
                /\ \A j \in 1..Len(sismos) : DateKey(sismos[j]) <= DateKey(sismos[i])
                /\ \A j \in (i + 1)..Len(sismos) :
                     DateKey(sismos[j]) < DateKey(sismos[i])]

\* SismosService._get_latest_earthquake: max returns the first of the
\* items whose key is the greatest.
get_latest_earthquake(sismos) ==
  IF Len(sismos) = 0 THEN NoneObj
  ELSE sismos[CHOOSE i \in 1..Len(sismos) :
                /\ \A j \in 1..Len(sismos) : DateKey(sismos[j]) <= DateKey(sismos[i])
                /\ \A j \in 1..(i - 1) : DateKey(sismos[j]) < DateKey(sismos[i])]

\* The magnitudes that parse, as the loop of lines 115-121 collects them.
Magnitudes(features) ==
  LET parsed == SelectSeq(features, LAMBDA s : ParsesAsFloat(s.properties.value))
  IN [i \in 1..Len(parsed) |-> float(parsed[i].properties.value)]

RECURSIVE sum(_)
sum(xs) == IF Len(xs) = 0 THEN 0 ELSE Head(xs) + sum(Tail(xs))

min(xs) == CHOOSE m \in {xs[i] : i \in 1..Len(xs)} : \A i \in 1..Len(xs) : m <= xs[i]
max(xs) == CHOOSE m \in {xs[i] : i \in 1..Len(xs)} : \A i \in 1..Len(xs) : xs[i] <= m

\* The quotient a / b, kept as the two numbers.
Quotient(a, b) == [num |-> a, den |-> b]

SismosStats(total, minimum, maximum, average, ultimo, t) ==
  [total_sismos |-> total, magnitud_minima |-> minimum,
   magnitud_maxima |-> maximum, magnitud_promedio |-> average,
   ultimo_sismo |-> ultimo, ultima_actualizacion |-> t]

\* Statistics that count a magnitude that does not parse as 0.0.
get_sismos_stats_unparsed_as_zero(sismos, t) ==
  IF sismos = NoneObj \/ Len(sismos.features) = 0
  THEN SismosStats(0, 0, 0, Quotient(0, 1), NoneObj, t)
  ELSE LET magnitudes ==
             [i \in 1..Len(sismos.features) |->
                IF ParsesAsFloat(sismos.features[i].properties.value)
                THEN float(sismos.features[i].properties.value) ELSE 0]
       IN SismosStats(Len(sismos.features), min(magnitudes), max(magnitudes),
                      Quotient(sum(magnitudes), Len(magnitudes)),
                      get_latest_earthquake(sismos.features), t)

\* SismosService.get_sismos_stats at time t.
get_sismos_stats(sismos, t) ==
  IF sismos = NoneObj \/ Len(sismos.features) = 0
  THEN SismosStats(0, 0, 0, Quotient(0, 1), NoneObj, t)
  ELSE LET found == Magnitudes(sismos.features)
           magnitudes == IF Len(found) = 0 THEN <<0>> ELSE found
       IN SismosStats(Len(sismos.features), min(magnitudes), max(magnitudes),
                      Quotient(sum(magnitudes), Len(magnitudes)),
                      get_latest_earthquake(sismos.features), t)

\* A filter that keeps the magnitudes above the minimum only.
get_sismos_by_magnitude_strict(sismos, min_magnitude) ==
  SelectSeq(sismos.features,
            LAMBDA s : /\ ParsesAsFloat(s.properties.value)
                       /\ float(s.properties.value) > min_magnitude)

\* SismosService.get_sismos_by_magnitude
get_sismos_by_magnitude(sismos, min_magnitude) ==
  SelectSeq(sismos.features,
            LAMBDA s : /\ ParsesAsFloat(s.properties.value)
                       /\ float(s.properties.value) >= min_magnitude)

\* sorted(features, key, reverse=True): the greatest key first, and the
\* features of one key in the order they had.
sorted_reverse(features) ==
  LET n == Len(features)
      Before(i, j) ==
        \/ DateKey(features[i]) > DateKey(features[j])
        \/ DateKey(features[i]) = DateKey(features[j]) /\ i < j
      Rank(i) == 1 + Cardinality({j \in 1..n : Before(j, i)})
  IN [r \in 1..n |-> features[CHOOSE i \in 1..n : Rank(i) = r]]

\* xs[:limit]
SliceTo(xs, limit) ==
  IF limit >= 0
  THEN SubSeq(xs, 1, IF limit < Len(xs) THEN limit ELSE Len(xs))
  ELSE SubSeq(xs, 1, IF Len(xs) + limit > 0 THEN Len(xs) + limit ELSE 0)

\* The first of the features, as the file lists them.
get_recent_sismos_unsorted(sismos, limit) == SliceTo(sismos.features, limit)

\* SismosService.get_recent_sismos
get_recent_sismos(sismos, limit) == SliceTo(sorted_reverse(sismos.features), limit)

\* An entry for every feature whose magnitude parses, with 0.0 for a
\* latitude or a longitude that does not.
Coordinates_magnitude_only(sismos) ==
  LET parsed == SelectSeq(sismos.features,
                          LAMBDA s : ParsesAsFloat(s.properties.value))
  IN [i \in 1..Len(parsed) |->
        [lat |-> IF ParsesAsFloat(parsed[i].properties.lat)
                 THEN float(parsed[i].properties.lat) ELSE 0,
         lng |-> IF ParsesAsFloat(parsed[i].properties.long)
                 THEN float(parsed[i].properties.long) ELSE 0,
         magnitude |-> float(parsed[i].properties.value),
         location |-> parsed[i].properties.addressFormatted,
         date |-> parsed[i].properties.date,
         time |-> parsed[i].properties.time,
         depth |-> parsed[i].properties.depth]]

\* The loop of get_sismos_coordinates: a feature one of whose three float
\* calls raises is passed over.
Coordinates(sismos) ==
  LET parsed == SelectSeq(sismos.features,
                          LAMBDA s : /\ ParsesAsFloat(s.properties.lat)
                                     /\ ParsesAsFloat(s.properties.long)
                                     /\ ParsesAsFloat(s.properties.value))
  IN [i \in 1..Len(parsed) |->
        [lat |-> float(parsed[i].properties.lat),
         lng |-> float(parsed[i].properties.long),
         magnitude |-> float(parsed[i].properties.value),
         location |-> parsed[i].properties.addressFormatted,
         date |-> parsed[i].properties.date,
         time |-> parsed[i].properties.time,
         depth |-> parsed[i].properties.depth]]

\* What the caller of an endpoint receives.
HTTPException(status_code, detail) ==
  [status |-> status_code, body |-> [detail |-> detail]]

Returned(body) == [status |-> 200, body |-> body]

NoData == HTTPException(404, "No se encontraron datos de sismos")

\* The handlers of an endpoint's try.  "except HTTPException: raise" hands
\* the exception on; where "except Exception" stands alone it catches the
\* HTTPException too, and the caller receives status 500.
Raise(exc, reraises) ==
  IF reraises THEN exc ELSE HTTPException(500, "Error interno del servidor")

\* The events a snapshot can list: the two of the feed, one whose magnitude
\* is no number and whose date is the first's, one whose date has no
\* hyphens and whose latitude is no number, one dated the 31st of February,
\* one whose time has no colon and whose longitude is no number.
EventOf(value, date, time, lat, long) ==
  [type |-> "Sismo",
   geometry |-> [type |-> "Point", coordinates |-> <<-669, 105>>,
                 marcador |-> "rojo"],
   properties |-> [depth |-> "10.0 km", value |-> value,
                   addressFormatted |-> "Caracas", time |-> time,
                   country |-> "Venezuela", date |-> date,
                   lat |-> lat, long |-> long]]

EventKinds ==
  {TransformFeature(RawF1), TransformFeature(RawF2),
   EventOf("N/D", "05-11-2025", "10:30", "10.5", "-66.9"),
   EventOf("6.0", "2025/11/06", "08:15", "N/D", "-66.9"),
   EventOf("3.1", "31-02-2025", "10:30", "9.2", "-70.1"),
   EventOf("4.2", "05-11-2025", "10.30", "10.5", "")}

EventLists == UNION {[1..n -> EventKinds] : n \in 0..MaxEvents}

\* The snapshot files a query can find: none, one that is no JSON, one
\* that is no collection, the provider's, and the saved collections.
QueryFiles ==
  InitialFiles
  \cup {[exists |-> TRUE, text |-> BrokenText, mtime |-> 0],
        [exists |-> TRUE, text |-> JsonText([type |-> "sismos"]), mtime |-> 0]}
  \cup {[exists |-> TRUE,
         text |-> JsonText([type |-> "sismos", features |-> fs]),
         mtime |-> 0] : fs \in EventLists}

\* The limits and the least magnitudes (in tenths) a caller asks for.
Limits == 0..MaxEvents \cup {50, 51}
MinMagnitudes == {-1, 0, 31, 42, 100, 101}

\* The record of a request: the endpoint and its argument, whether it
\* called load_sismos and what that returned, and the response.
Request(op, arg, loaded, sismos, response) ==
  [op |-> op, arg |-> arg, loaded |-> loaded, sismos |-> sismos,
   status |-> response.status, body |-> response.body]

QueryInit ==
  /\ FreshService
  /\ data_file \in QueryFiles
  /\ backups = {}
  /\ last = Request("init", 0, FALSE, NoneObj, Returned(NoneObj))

\* GET /api/sismos
GetSismos ==
  /\ LET sismos == load_sismos(data_file)
     IN last' = Request("sismos", 0, TRUE, sismos,
                        IF sismos = NoneObj THEN Raise(NoData, FALSE)
                        ELSE Returned(sismos))
  /\ UNCHANGED <<is_running, last_update, update_stats, scheduler, data_file,
                 backups, now, cycles>>

\* GET /api/sismos/stats
GetSismosStats ==
  /\ LET sismos == load_sismos(data_file)
     IN last' = Request("stats", 0, TRUE, sismos,
                        IF sismos = NoneObj THEN Raise(NoData, FALSE)
                        ELSE Returned(get_sismos_stats(sismos, now)))
  /\ UNCHANGED <<is_running, last_update, update_stats, scheduler, data_file,
                 backups, now, cycles>>

\* GET /api/sismos/recent?limit=
GetRecentSismos(limit) ==
  /\ IF limit < 1 \/ limit > 50
     THEN last' = Request("recent", limit, FALSE, NoneObj,
                          Raise(HTTPException(400, "El límite debe estar entre 1 y 50"),
                                TRUE))
     ELSE LET sismos == load_sismos(data_file)
          IN last' = Request("recent", limit, TRUE, sismos,
                             IF sismos = NoneObj THEN Raise(NoData, TRUE)
                             ELSE LET recent == get_recent_sismos(sismos, limit)
                                  IN Returned([sismos |-> recent,
                                               total |-> Len(recent)]))
  /\ UNCHANGED <<is_running, last_update, update_stats, scheduler, data_file,
                 backups, now, cycles>>

\* GET /api/sismos/magnitude/{min_magnitude}, the magnitude in tenths
GetSismosByMagnitude(min_magnitude) ==
  /\ IF min_magnitude < 0 \/ min_magnitude > 100
     THEN last' = Request("magnitude", min_magnitude, FALSE, NoneObj,
                          Raise(HTTPException(400, "La magnitud debe estar entre 0 y 10"),
                                TRUE))
     ELSE LET sismos == load_sismos(data_file)
          IN last' = Request("magnitude", min_magnitude, TRUE, sismos,
                             IF sismos = NoneObj THEN Raise(NoData, TRUE)
                             ELSE LET filtered ==
                                        get_sismos_by_magnitude(sismos, min_magnitude)
                                  IN Returned([sismos |-> filtered,
                                               total |-> Len(filtered),
                                               min_magnitude |-> min_magnitude]))
  /\ UNCHANGED <<is_running, last_update, update_stats, scheduler, data_file,
                 backups, now, cycles>>

\* GET /api/sismos/coordinates
GetSismosCoordinates ==
  /\ LET sismos == load_sismos(data_file)
     IN last' = Request("coordinates", 0, TRUE, sismos,
                        IF sismos = NoneObj THEN Raise(NoData, TRUE)
                        ELSE LET coordinates == Coordinates(sismos)
                             IN Returned([coordinates |-> coordinates,
                                          total |-> Len(coordinates)]))
  /\ UNCHANGED <<is_running, last_update, update_stats, scheduler, data_file,
                 backups, now, cycles>>

QueryNext ==
  \/ GetSismos
  \/ GetSismosStats
  \/ \E limit \in Limits : GetRecentSismos(limit)
  \/ \E min_magnitude \in MinMagnitudes : GetSismosByMagnitude(min_magnitude)
  \/ GetSismosCoordinates

QuerySpec == QueryInit /\ [][QueryNext]_vars

(***************************************************************************)
(* Properties of the queries.                                              *)
(***************************************************************************)
\* The endpoint op has answered with a result.
Answered(op) == last.op = op /\ last.status = 200

\* The events of the collection the last request loaded.
Events == last.sismos.features

\* The positions of the events whose magnitude is a number.
ParsedAt(features) ==
  {i \in 1..Len(features) : ParsesAsFloat(features[i].properties.value)}

RECURSIVE SumOver(_, _)
SumOver(features, I) ==
  IF I = {} THEN 0
  ELSE LET i == CHOOSE j \in I : TRUE
       IN float(features[i].properties.value) + SumOver(features, I \ {i})

\* C24: the statistics of a collection of N events, M of them with a
\* magnitude that is a number, report a total of N and the least, the
\* greatest and the mean of those M magnitudes, or 0.0 for the three when
\* M = 0.
C24_StatsOverParsedMagnitudes ==
  Answered("stats") =>
    LET P == ParsedAt(Events)
        values == {float(Events[i].properties.value) : i \in P}
        stats == last.body
    IN /\ stats.total_sismos = Len(Events)
       /\ stats.magnitud_promedio.den > 0
       /\ IF P = {}
          THEN /\ stats.magnitud_minima = 0
               /\ stats.magnitud_maxima = 0
               /\ stats.magnitud_promedio.num = 0
          ELSE /\ stats.magnitud_minima \in values
               /\ \A v \in values : stats.magnitud_minima <= v
               /\ stats.magnitud_maxima \in values
               /\ \A v \in values : v <= stats.magnitud_maxima
               /\ stats.magnitud_promedio.num * Cardinality(P) =
                    SumOver(Events, P) * stats.magnitud_promedio.den

C24_Witness ==
  /\ Answered("stats")
  /\ Len(Events) = 3 /\ Cardinality(ParsedAt(Events)) = 2
  /\ last.body.total_sismos = 3
  /\ last.body.magnitud_minima = 31 /\ last.body.magnitud_maxima = 60
  /\ last.body.magnitud_promedio = Quotient(91, 2)

\* The dates of the model that are a day of the calendar written
\* DD-MM-YYYY, and its times that are a minute of the day written HH:MM.
CalendarDates == {"05-11-2025", "04-11-2025"}
ClockTimes == {"10:30", "08:15"}

Malformed(s) ==
  ~(s.properties.date \in CalendarDates /\ s.properties.time \in ClockTimes)

AtLeast(features, x) ==
  {i \in ParsedAt(features) : float(features[i].properties.value) >= x}

\* The place a position of I has among the positions of I.
PlaceIn(I, i) == Cardinality({j \in I : j <= i})

\* C26: the filter by magnitude returns the events whose magnitude is a
\* number and at least the minimum, each once and in the order of the
\* collection, and no other.
C26_FilterByMagnitude ==
  Answered("magnitude") =>
    LET Keep == AtLeast(Events, last.arg)
    IN /\ Len(last.body.sismos) = Cardinality(Keep)
       /\ \A i \in Keep : last.body.sismos[PlaceIn(Keep, i)] = Events[i]
       /\ last.body.total = Cardinality(Keep)

C26_Witness ==
  /\ Answered("magnitude") /\ last.arg = 42
  /\ Len(Events) = 3
  /\ AtLeast(Events, 42) = {2, 3}
  /\ ~ParsesAsFloat(Events[1].properties.value)
  /\ last.body.sismos = <<Events[2], Events[3]>>

\* C27: the recent events for a limit k are at most k events of the
\* collection, those of later date and time first, and those whose date or
\* time is malformed after all the others.
C27_RecentSortedDescending ==
  Answered("recent") =>
    LET recent == last.body.sismos
    IN /\ Len(recent) <= last.arg
       /\ \E f \in [1..Len(recent) -> 1..Len(Events)] :
            /\ \A r, q \in 1..Len(recent) : f[r] = f[q] => r = q
            /\ \A r \in 1..Len(recent) : Events[f[r]] = recent[r]
       /\ \A r, q \in 1..Len(recent) :
            r < q => /\ DateKey(recent[r]) >= DateKey(recent[q])
                     /\ Malformed(recent[r]) => Malformed(recent[q])

C27_Witness ==
  /\ Answered("recent") /\ last.arg = 2
  /\ Len(Events) = 3
  /\ Malformed(Events[1]) /\ ~Malformed(Events[2]) /\ Malformed(Events[3])
  /\ last.body.sismos = <<Events[2], Events[1]>>

\* The positions of the events whose latitude, longitude and magnitude are
\* numbers.
Located(features) ==
  {i \in ParsedAt(features) :
     /\ ParsesAsFloat(features[i].properties.lat)
     /\ ParsesAsFloat(features[i].properties.long)}

\* C28: the coordinates are one entry of lat, lng, magnitude, location,
\* date, time and depth for each event whose latitude, longitude and
\* magnitude are numbers, in the order of the collection, and none for the
\* other events; the total is the number of entries.
C28_CoordinatesOfParsedEvents ==
  Answered("coordinates") =>
    LET Keep == Located(Events)
        entries == last.body.coordinates
    IN /\ Len(entries) = Cardinality(Keep)
       /\ last.body.total = Len(entries)
       /\ \A i \in Keep :
            entries[PlaceIn(Keep, i)] =
              [lat |-> float(Events[i].properties.lat),
               lng |-> float(Events[i].properties.long),
               magnitude |-> float(Events[i].properties.value),
               location |-> Events[i].properties.addressFormatted,
               date |-> Events[i].properties.date,
               time |-> Events[i].properties.time,
               depth |-> Events[i].properties.depth]

C28_Witness ==
  /\ Answered("coordinates")
  /\ Len(Events) = 3 /\ Located(Events) = {2}
  /\ ~ParsesAsFloat(Events[1].properties.lat)
  /\ ~ParsesAsFloat(Events[3].properties.long)
  /\ last.body.total = 1
  /\ last.body.coordinates[1].lat = 105
  /\ last.body.coordinates[1].lng = -669
  /\ last.body.coordinates[1].magnitude = 42

\* C29: a query for which load_sismos returned None is answered as not
\* found.
C29_NoneIsNotFound ==
  (last.loaded /\ last.sismos = NoneObj) =>
    /\ last.status = NoData.status
    /\ last.body = NoData.body

\* The snapshot is missing, is no JSON, or holds a valid collection of no
\* events.
DataAbsent ==
  \/ ~data_file.exists
  \/ ~data_file.text.wellformed
  \/ /\ SismosValid(data_file.text.json)
     /\ Len(data_file.text.json.features) = 0

\* C30: a query on a snapshot that is missing, corrupt or without events
\* is answered as not found.
C30_DataAbsentIsNotFound ==
  (last.loaded /\ DataAbsent) => last.status = NoData.status

(***************************************************************************)
(* Properties of force_update and of the fields of the status.             *)
(***************************************************************************)
OtherCyclesUntouched(c) == \A d \in Origins \ {c} : cycles'[d] = cycles[d]

\* C31: force_update begins one cycle of its own, whether the scheduler is
\* marked running or not and whatever the recurring job is doing, and
\* returns what that cycle returns, True for a success counted and False
\* for a failure counted; neither its call nor its return changes the
\* running flag, the scheduler or the cycles of the other callers.
C31_ForceUpdateRunsOneCycle ==
  /\ [][/\ (last'.op = "update" /\ last'.origin = "force") =>
             /\ total_updates' = total_updates + 1
             /\ cycles["force"].pc = "idle" /\ cycles'["force"].pc = "download"
             /\ OtherCyclesUntouched("force")
             /\ UNCHANGED <<is_running, scheduler>>
        /\ (CycleEnds /\ last'.origin = "force") =>
             /\ total_updates' = total_updates
             /\ cycles["force"].pc = "download" /\ cycles'["force"].pc = "idle"
             /\ OtherCyclesUntouched("force")
             /\ UNCHANGED <<is_running, scheduler>>
             /\ last'.ret \in {"True", "False"}
             /\ last'.ret = "True" => successful_updates' = successful_updates + 1
             /\ last'.ret = "False" => failed_updates' = failed_updates + 1]_vars
  /\ []((cycles["force"].pc = "idle" /\ total_updates < MaxCycles)
          => ENABLED ForceUpdate)

C31_Witness ==
  /\ last.op = "cycle" /\ last.origin = "force" /\ last.ret = "True"
  /\ ~is_running /\ ~scheduler.running /\ scheduler.jobs = {}
  /\ total_updates = 1

\* schemas.ApiResponse
ApiResponse(success, message, data) ==
  [success |-> success, message |-> message, data |-> data, timestamp |-> now]

\* An endpoint that answers a failed update as a server error.
ForceUpdateResponse_ErrorOnFailure(success) ==
  IF success = "True"
  THEN Returned(ApiResponse(TRUE, "Datos actualizados correctamente",
                            [updated |-> TRUE]))
  ELSE HTTPException(500, "Error interno del servidor")

\* POST /api/update: what the caller receives when force_update has
\* returned success, or has raised.
ForceUpdateResponse(success) ==
  IF success = "raised"
  THEN HTTPException(500, "Error interno del servidor")
  ELSE IF success = "True"
  THEN Returned(ApiResponse(TRUE, "Datos actualizados correctamente",
                            [updated |-> TRUE]))
  ELSE Returned(ApiResponse(FALSE, "Error al actualizar datos",
                            [updated |-> FALSE]))

ForcedUpdateFailed ==
  last.op = "cycle" /\ last.origin = "force" /\ last.ret = "False"

\* C32 as stated: the caller of a forced update that failed receives the
\* server-error response.
C32_FailedForceIsServerError ==
  ForcedUpdateFailed => ForceUpdateResponse(last.ret).status = 500

\* C32, amended: the caller of a forced update that failed receives an
\* ordinary response, of status 200, whose body says success false, the
\* message "Error al actualizar datos" and updated false.
C32_FailedForceIsReportedInBody ==
  ForcedUpdateFailed =>
    LET response == ForceUpdateResponse(last.ret)
    IN /\ response.status = 200
       /\ response.body.success = FALSE
       /\ response.body.message = "Error al actualizar datos"
       /\ response.body.data.updated = FALSE

C32_Witness ==
  /\ ForcedUpdateFailed /\ last.outcome = "fetch_failed"
  /\ ForceUpdateResponse(last.ret).status = 200
  /\ ~ForceUpdateResponse(last.ret).body.success

(***************************************************************************)
(* The download on its own: one call of _download_funvisis_data on an      *)
(* answer of the provider.                                                 *)
(***************************************************************************)
\* The answers a request can get: no answer, or a status, a content type
\* and a body that is no JSON or one of the documents.
FetchResponses ==
  {Response("timeout", 0, "", BrokenText),
   Response("connection_error", 0, "", BrokenText)}
  \cup {Response("ok", status, ctype, body) :
          status \in {200, 404, 500},
          ctype \in {"application/json", "text/plain"},
          body \in {BrokenText} \cup {JsonText(d) : d \in Documents}}

\* The record of a download: the answer and what the call returned.
Fetch(op, resp, result) == [op |-> op, resp |-> resp, result |-> result]

FetchInit ==
  /\ FreshService
  /\ data_file = [exists |-> FALSE, text |-> BrokenText, mtime |-> 0]
  /\ backups = {}
  /\ \E resp \in FetchResponses : last = Fetch("get", resp, NoneObj)

\* _download_funvisis_data returns.
Download ==
  /\ last.op = "get"
  /\ last' = Fetch("download", last.resp, download_funvisis_data(last.resp))
  /\ UNCHANGED <<is_running, last_update, update_stats, scheduler, data_file,
                 backups, now, cycles>>

FetchSpec == FetchInit /\ [][Download]_vars

\* The answer is a success whose body is JSON and a valid collection of the
\* provider's shape.
ValidPayload(resp) ==
  /\ resp.net = "ok" /\ resp.status = 200
  /\ resp.body.wellformed
  /\ FunvisisValid(resp.body.json)

\* C33: the download raises nothing; it returns None after a connection
\* error, a timeout, a status other than 200, a body that is no JSON
\* whichever way it is read, and a JSON that is no valid collection of the
\* provider's shape, and it returns the collection of the body in every
\* other case.
C33_DownloadNeverRaises ==
  last.op = "download" =>
    /\ last.result # Raised
    /\ IF ValidPayload(last.resp)
       THEN /\ last.result # NoneObj
            /\ last.result.type = last.resp.body.json.type
            /\ Len(last.result.features) = Len(last.resp.body.json.features)
            /\ FunvisisValid(last.result)
       ELSE last.result = NoneObj

C33_Witness ==
  /\ last.op = "download"
  /\ last.resp.ctype = "text/plain" /\ ValidPayload(last.resp)
  /\ last.resp.body.json.features = <<RawF2, RawF1>>
  /\ last.result = FunvisisCollection(last.resp.body.json)

(***************************************************************************)
(* The health check of main.py, asked of a service that is started and     *)
(* stopped and whose first update ends in any way.                         *)
(***************************************************************************)
\* A health check that does not look at the scheduler.
health_check_ignores_scheduler(is_testing) ==
  LET data_exists == data_file.exists
      sismos == load_sismos(data_file)
      data_valid == sismos # NoneObj /\ Len(sismos.features) > 0
  IN Returned(
       [status |-> IF is_testing \/ (data_exists /\ data_valid)
                   THEN "healthy" ELSE "unhealthy",
        checks |-> [data_file_exists |-> data_exists,
                    scheduler_running |-> is_running,
                    data_valid |-> data_valid,
                    total_sismos |-> IF sismos # NoneObj
                                     THEN Len(sismos.features) ELSE 0],
        timestamp |-> IF last_update # NoneTime THEN isoformat(last_update)
                      ELSE NoneObj])

\* GET /api/health (lines 285-334); is_testing tells whether the
\* environment has TESTING=true.  Nothing inside the try raises:
\* load_sismos catches its own exceptions.
health_check(is_testing) ==
  LET data_exists == data_file.exists
      scheduler_running == is_running
      sismos == load_sismos(data_file)
      data_valid == sismos # NoneObj /\ Len(sismos.features) > 0
  IN Returned(
       [status |-> IF is_testing THEN "healthy"
                   ELSE IF data_exists /\ scheduler_running /\ data_valid
                   THEN "healthy" ELSE "unhealthy",
        checks |-> [data_file_exists |-> data_exists,
                    scheduler_running |-> scheduler_running,
                    data_valid |-> data_valid,
                    total_sismos |-> IF sismos # NoneObj
                                     THEN Len(sismos.features) ELSE 0],
        timestamp |-> IF last_update # NoneTime THEN isoformat(last_update)
                      ELSE NoneObj])

\* The record of a health check and of its response.
Health(is_testing, response) ==
  [op |-> "health", is_testing |-> is_testing, status |-> response.status,
   body |-> response.body]

HealthCheck(is_testing) ==
  /\ last' = Health(is_testing, health_check(is_testing))
  /\ UNCHANGED <<is_running, last_update, update_stats, scheduler, data_file,
                 backups, now, cycles>>

\* The snapshots the service can be started on: those of Init, one that is
\* no JSON and a collection without events.
HealthFiles ==
  InitialFiles
  \cup {[exists |-> TRUE, text |-> BrokenText, mtime |-> 0],
        [exists |-> TRUE,
         text |-> JsonText([type |-> "sismos", features |-> <<>>]),
         mtime |-> 0]}

HealthInit ==
  /\ FreshService
  /\ data_file \in HealthFiles
  /\ backups = {}
  /\ last = Event("init", "none", "none", "None", NoneObj, NoneStr)

HealthNext ==
  \/ \E is_testing \in BOOLEAN : HealthCheck(is_testing)
  \/ StartScheduler("ok")
  \/ UpdateComplete("start", now)
  \/ StopScheduler("ok")

HealthSpec == HealthInit /\ [][HealthNext]_vars

HealthChecked == last.op = "health"

\* No call of start_scheduler has been made.
NeverStarted == ~is_running /\ ~scheduler.running /\ total_updates = 0

Interleaving(op, phase, before, saving, result) ==
  [op |-> op, phase |-> phase, before |-> before, saving |-> saving,
   result |-> result]

ReadDuringWriteInit ==
  /\ FreshService
  /\ data_file \in LoadFiles
  /\ backups = {}
  /\ last = Interleaving("init", "idle", NoneObj, NoneObj, NoneObj)

\* Lines 55-59: the backup is made, then open(.., "w") truncates the
\* snapshot; until json.dump has written all of it the file holds a part of
\* the text.
BeginSave(sismos) ==
  /\ last.phase = "idle"
  /\ backups' = IF data_file.exists
                THEN create_backup(data_file, backups, now, "ok", {})
                ELSE backups
  /\ data_file' = write_data_file(data_file, sismos, now, "write_error")
  /\ last' = Interleaving("open", "writing", load_sismos(data_file), sismos,
                          last.result)
  /\ UNCHANGED <<is_running, last_update, update_stats, scheduler, now, cycles>>

\* Lines 60-63: json.dump has written the text and the file is closed.
FinishSave ==
  /\ last.phase = "writing"
  /\ data_file' = write_data_file(data_file, last.saving, now, "ok")
  /\ last' = Interleaving("close", "written", last.before, last.saving,
                          last.result)
  /\ UNCHANGED <<is_running, last_update, update_stats, scheduler, backups, now,
                 cycles>>

\* Another thread or process calls load_sismos.
LoadBeside ==
  /\ last' = Interleaving("load", last.phase, last.before, last.saving,
                          load_sismos(data_file))
  /\ UNCHANGED <<is_running, last_update, update_stats, scheduler, data_file,
                 backups, now, cycles>>

ReadDuringWriteNext ==
  \/ \E sismos \in Saved : BeginSave(sismos)
  \/ FinishSave
  \/ LoadBeside

ReadDuringWriteSpec == ReadDuringWriteInit /\ [][ReadDuringWriteNext]_vars

\* C35: a load_sismos made while a save_sismos is in progress returns the
\* collection that was in the snapshot before the save or the collection
\* being saved, and it does not return None when the snapshot was valid
\* before the save.
C35_LoadSeesOldOrNew ==
  (last.op = "load" /\ last.phase = "writing") =>
    /\ last.result \in {last.before, last.saving}
    /\ last.before # NoneObj => last.result # NoneObj

(***************************************************************************)
(* updater.py: SismosUpdater in continuous mode.  The script keeps the     *)
(* provider's own documents in sismosve.json and validates nothing.        *)
(***************************************************************************)
MaxRuns == 3

NoFile == [exists |-> FALSE, text |-> BrokenText, mtime |-> 0]

\* The documents the provider can answer the script with: the feeds, a
\* collection without features, one whose feature has no properties, and
\* an object without "features".
UpdaterPayloads ==
  Feeds \cup {[type |-> "FeatureCollection", features |-> <<>>],
              [type |-> "FeatureCollection", features |-> <<[type |-> "Feature"]>>],
              NotACollection}

UpdaterResponses ==
  {Response("timeout", 0, "", BrokenText),
   Response("ok", 500, "application/json", BrokenText),
   Response("ok", 200, "application/json", BrokenText)}
  \cup {Response("ok", 200, "application/json", JsonText(d)) : d \in UpdaterPayloads}

\* SismosUpdater.download_data: raise_for_status raises for a status of 400
\* or more, response.json() for a body that is no JSON; every exception is
\* caught and gives None.
download_data(resp) ==
  IF resp.net # "ok" THEN NoneObj
  ELSE IF resp.status >= 400 THEN NoneObj
  ELSE IF ~resp.body.wellformed THEN NoneObj
  ELSE resp.body.json

\* SismosUpdater.save_data at time t: the snapshot, if there is one, is
\* renamed to a backup and the old backups are pruned (del is what the
\* pruning deletes), then the new file is written; wo = "open_error" is a
\* write that fails, after the rename.
save_data(file, bks, data, t, del, wo) ==
  LET bks1 == IF file.exists THEN BackupsAfterCopy(file, bks, t) \ del ELSE bks
  IN IF wo = "ok"
     THEN [data_file |-> [exists |-> TRUE, text |-> JsonText(data), mtime |-> t],
           backups |-> bks1, ret |-> TRUE]
     ELSE [data_file |-> NoFile, backups |-> bks1, ret |-> FALSE]

\* The magnitude get_file_stats reads from a feature (lines 131-135):
\* float of the phone, or of 0 when there is none; a text that is no number
\* is passed over.
PhoneMagnitudes(features) ==
  LET counted == SelectSeq(features,
                           LAMBDA f : \/ "phone" \notin DOMAIN f.properties
                                      \/ ParsesAsFloat(f.properties.phone))
  IN [i \in 1..Len(counted) |->
        IF "phone" \in DOMAIN counted[i].properties
        THEN float(counted[i].properties.phone) ELSE 0]

\* SismosUpdater.get_file_stats: feature['properties'] raises KeyError for
\* a feature without properties, and the try around it catches ValueError
\* and TypeError only.
get_file_stats(data) ==
  IF "features" \notin DOMAIN data THEN [summary |-> "Sin datos válidos"]
  ELSE IF Len(data.features) = 0 THEN [summary |-> "No hay sismos registrados"]
  ELSE IF \E i \in 1..Len(data.features) : "properties" \notin DOMAIN data.features[i]
  THEN Raised
  ELSE LET magnitudes == PhoneMagnitudes(data.features)
       IN IF Len(magnitudes) > 0
          THEN [summary |-> "Total | Magnitud", total |-> Len(data.features),
                min_mag |-> min(magnitudes), max_mag |-> max(magnitudes),
                avg_mag |-> Quotient(sum(magnitudes), Len(magnitudes))]
          ELSE [summary |-> "Total", total |-> Len(data.features)]

\* SismosUpdater.run_once at time t: what it leaves and what it returns,
\* "raised" when an exception leaves it.
run_once(file, bks, t, resp, del, wo) ==
  LET data == download_data(resp) IN
  IF data = NoneObj
  THEN [data_file |-> file, backups |-> bks, ret |-> "False",
        outcome |-> "download_failed"]
  ELSE LET saved == save_data(file, bks, data, t, del, wo) IN
       IF ~saved.ret
       THEN [data_file |-> saved.data_file, backups |-> saved.backups,
             ret |-> "False", outcome |-> "save_failed"]
       ELSE IF get_file_stats(data) = Raised
       THEN [data_file |-> saved.data_file, backups |-> saved.backups,
             ret |-> "raised", outcome |-> "stats_raised"]
       ELSE [data_file |-> saved.data_file, backups |-> saved.backups,
             ret |-> "True", outcome |-> "ok"]

\* The record of the script: pc is where run_continuous is ("start",
\* "sleeping" inside the loop, "interrupted" after KeyboardInterrupt,
\* "critical" after the handler of line 183, "crashed" when an exception
\* has left run_continuous), runs the number of calls of run_once, outcome
\* how the last one ended.
Updater(pc, runs, outcome) ==
  [op |-> "updater", pc |-> pc, runs |-> runs, outcome |-> outcome]

UpdaterInit ==
  /\ FreshService
  /\ data_file \in InitialFiles
  /\ backups = {}
  /\ last = Updater("start", 0, "none")

\* One call of run_once at time t; after tells where run_continuous is
\* when run_once has returned, failed where it is when run_once has raised.
RunOnce(t, after, failed) ==
  /\ now' = t
  /\ \E resp \in UpdaterResponses, wo \in {"ok", "open_error"} :
       \E del \in PruneChoices(BackupsAfterCopy(data_file, backups, t)) :
         LET r == run_once(data_file, backups, t, resp, del, wo)
         IN /\ data_file' = r.data_file
            /\ backups' = r.backups
            /\ last' = Updater(IF r.ret = "raised" THEN failed ELSE after,
                               last.runs + 1, r.outcome)
  /\ UNCHANGED <<is_running, last_update, update_stats, scheduler, cycles>>

\* Line 173: the first update, before the try.
FirstRun ==
  /\ last.pc = "start"
  /\ RunOnce(now, "sleeping", "crashed")

\* Lines 176-179: the sleep ends and the loop calls run_once; an exception
\* that leaves it is caught by the handler of line 183, after the loop.
NextRun ==
  /\ last.pc = "sleeping"
  /\ last.runs < MaxRuns
  /\ RunOnce(now + 1, "sleeping", "critical")

\* Lines 181-182: the user interrupts the sleep.
Interrupt ==
  /\ last.pc = "sleeping"
  /\ last' = Updater("interrupted", last.runs, last.outcome)
  /\ UNCHANGED <<is_running, last_update, update_stats, scheduler, data_file,
                 backups, now, cycles>>

UpdaterNext == FirstRun \/ NextRun \/ Interrupt

UpdaterSpec == UpdaterInit /\ [][UpdaterNext]_vars

\* C36: in continuous mode the script makes one update at once and then
\* sleeps and updates for ever; an update that fails, in the download, the
\* save or the statistics, does not end the loop: only the user's
\* interrupt does.
C36_OnlyInterruptEndsLoop ==
  /\ last.pc \in {"start", "sleeping", "interrupted"}
  /\ last.pc = "start" <=> last.runs = 0

(***************************************************************************)
(* Properties of last_update and last_error over the life of the service.  *)
(***************************************************************************)
last_error == update_stats.last_error

\* C37: last_update is set exactly when a success has been counted; it
\* changes only at the end of a cycle that counts a success, and then to
\* the time of that cycle, which is no earlier than the one it held; a
\* failed cycle, stop_scheduler and start_scheduler leave it as it is.
C37_LastUpdateFollowsSuccess ==
  /\ [](last_update # NoneTime <=> successful_updates >= 1)
  /\ [][/\ last_update' # last_update =>
             /\ CycleEnds
             /\ successful_updates' = successful_updates + 1
             /\ last_update' = now'
             /\ last_update' > last_update
        /\ (CycleEnds /\ successful_updates' = successful_updates) =>
             last_update' = last_update
        /\ last'.op \in {"start", "stop", "update"} =>
             last_update' = last_update]_vars

C37_Witness ==
  /\ last.op = "cycle" /\ last.outcome = "fetch_failed"
  /\ successful_updates = 1 /\ failed_updates = 1
  /\ last_update # NoneTime /\ last_update < now

\* C40: last_error changes only at the end of a cycle that ended in an
\* exception nobody expected, and then to the message of the exception;
\* once set it is never None again, whatever follows: a success, a
\* stop_scheduler or a start_scheduler; so the status still reports it
\* after a cycle has succeeded.
C40_LastErrorIsSticky ==
  [][/\ last_error' # last_error =>
          /\ CycleEnds
          /\ last'.outcome \in {"exception", "exception_after_save"}
          /\ last_error' = last'.msg
     /\ last_error # NoneStr => last_error' # NoneStr
     /\ (CycleEnds /\ last'.outcome = "ok") =>
          /\ last_error' = last_error
          /\ get_update_status'.stats.last_error = last_error
     /\ last'.op \in {"start", "stop", "update"} => last_error' = last_error]_vars

C40_Witness ==
  /\ last.op = "cycle" /\ last.outcome = "ok" /\ last.ret = "True"
  /\ last_error = "transform error"
  /\ get_update_status.stats.last_error = "transform error"

(***************************************************************************)
(* Overlapping cycles and the age of what they save.  The download of      *)
(* _download_funvisis_data has two awaits: session.get (line 150), which   *)
(* ends when the provider has answered, and response.json() (line 154),    *)
(* which ends when the body has arrived.  What the body holds is what the  *)
(* provider had published when it answered.  OverlapSpec follows the       *)
(* cycles of Spec with the two awaits apart and with a provider that       *)
(* publishes a newer feed from time to time.                               *)
(***************************************************************************)

\* What the provider publishes, oldest first: the newer feed has one more
\* event, put in front.
FeedVersions ==
  << [type |-> "FeatureCollection", features |-> <<RawF2>>],
     [type |-> "FeatureCollection", features |-> <<RawF1, RawF2>>] >>

\* The record of a step: feed is the version the provider publishes now;
\* issued lists the callers of the cycles in the order their requests were
\* issued, got the version each of them was answered with (0 until it is
\* answered or when the answer is an error) and outcome how each of them
\* ended ("" until it ends).
Overlap(op, feed, issued, got, outcome) ==
  [op |-> op, feed |-> feed, issued |-> issued, got |-> got,
   outcome |-> outcome]

OverlapInit ==
  /\ FreshService
  /\ data_file \in InitialFiles
  /\ backups = {}
  /\ last = Overlap("init", 1, <<>>, <<>>, <<>>)

\* The request of a cycle is issued (line 150).
Issued(op, origin) ==
  last' = Overlap(op, last.feed, Append(last.issued, origin),
                  Append(last.got, 0), Append(last.outcome, ""))

\* The place in last.issued of the cycle of caller c that is in flight: the
\* last one this caller began.
InFlight(c) ==
  CHOOSE i \in 1..Len(last.issued) :
    /\ last.issued[i] = c
    /\ \A j \in (i + 1)..Len(last.issued) : last.issued[j] # c

\* start_scheduler on a stopped scheduler, the registration succeeding
\* (lines 43-57): its first cycle begins.
OverlapStart ==
  /\ ~AlreadyRunning
  /\ scheduler' = [running |-> TRUE,
                   jobs |-> scheduler.jobs \cup {"update_sismos"}]
  /\ is_running' = TRUE
  /\ FirstUpdate
  /\ Issued("start", "start")
  /\ UNCHANGED <<last_update, data_file, backups, now>>

\* The recurring job fires.
OverlapTimerFire ==
  /\ scheduler.running
  /\ "update_sismos" \in scheduler.jobs
  /\ BeginUpdate("timer")
  /\ Issued("update", "timer")
  /\ UNCHANGED <<is_running, last_update, scheduler, data_file, backups, now>>

\* force_update is called.
OverlapForceUpdate ==
  /\ BeginUpdate("force")
  /\ Issued("update", "force")
  /\ UNCHANGED <<is_running, last_update, scheduler, data_file, backups, now>>

\* The provider publishes a newer feed.
Publish ==
  /\ last.feed < Len(FeedVersions)
  /\ last' = [last EXCEPT !.op = "publish", !.feed = @ + 1]
  /\ UNCHANGED <<is_running, last_update, update_stats, scheduler, data_file,
                 backups, now, cycles>>

\* The provider answers the request of the cycle called by c: with what it
\* publishes now, or with an error (line 150).
Answer(c, failed) ==
  /\ cycles[c].pc = "download"
  /\ LET resp == IF failed
                 THEN Response("ok", 500, "application/json", BrokenText)
                 ELSE Response("ok", 200, "application/json",
                               JsonText(FeedVersions[last.feed]))
     IN cycles' = [cycles EXCEPT ![c] = [pc |-> "answered", resp |-> resp]]
  /\ last' = [last EXCEPT !.op = "answer",
                          !.got[InFlight(c)] = IF failed THEN 0 ELSE last.feed]
  /\ UNCHANGED <<is_running, last_update, update_stats, scheduler, data_file,
                 backups, now>>

\* The body of the answer has arrived (line 154) and the cycle called by c
\* runs to its return, at time t (lines 155-177, then 88-120).
Arrive(c, t) ==
  /\ cycles[c].pc = "answered"
  /\ now' = t
  /\ LET resp == cycles[c].resp IN
     \E exc \in ExceptionChoices(resp) :
       \E env \in EnvChoices(data_file, backups, t, resp, exc) :
         LET r == update_after_download(update_stats, last_update, data_file,
                                        backups, t, resp, exc, env)
         IN /\ update_stats' = r.update_stats
            /\ last_update' = r.last_update
            /\ data_file' = r.data_file
            /\ backups' = r.backups
            /\ last' = [last EXCEPT !.op = "cycle",
                                    !.outcome[InFlight(c)] = r.outcome]
  /\ cycles' = [cycles EXCEPT ![c] = IdleCycle]
  /\ UNCHANGED <<is_running, scheduler>>

OverlapNext ==
  \/ OverlapStart
  \/ OverlapTimerFire
  \/ OverlapForceUpdate
  \/ Publish
  \/ \E c \in Origins, failed \in BOOLEAN : Answer(c, failed)
  \/ \E c \in Origins, t \in {now, now + 1} : Arrive(c, t)

OverlapSpec == OverlapInit /\ [][OverlapNext]_vars

\* No cycle is in flight, and each of the cycles begun so far has succeeded.
AllSucceeded ==
  /\ last.issued # <<>>
  /\ \A c \in Origins : cycles[c].pc = "idle"
  /\ \A i \in 1..Len(last.issued) : last.outcome[i] = "ok"

\* The collection save_sismos is given for a feed of the provider.
SnapshotOf(version) ==
  transform_funvisis_to_sismos(FunvisisCollection(FeedVersions[version]))

\* C38: once the cycles begun so far have all succeeded, overlapping or
\* not, the snapshot holds what the request issued last was answered with.
C38_SnapshotOfLastIssued ==
  AllSucceeded =>
    load_sismos(data_file) = SnapshotOf(last.got[Len(last.issued)])

\* Two cycles have succeeded; the request issued last was answered with the
\* newer feed, and the snapshot holds the older one.
SnapshotRegressed ==
  /\ AllSucceeded
  /\ Len(last.issued) = 2
  /\ last.got = <<1, 2>>
  /\ load_sismos(data_file) = SnapshotOf(1)

(***************************************************************************)
(* The last event of the statistics beside the first of the recent ones.   *)
(***************************************************************************)

\* e is the first, in the order of the collection, of the events whose
\* date and time are the greatest.
EarliestOfLatest(e) ==
  \E i \in 1..Len(Events) :
    /\ Events[i] = e
    /\ \A j \in 1..Len(Events) : DateKey(Events[j]) <= DateKey(e)
    /\ \A j \in 1..(i - 1) : DateKey(Events[j]) < DateKey(e)

\* C39: for a collection that is not empty, the last event the statistics
\* report is the only element of the one most recent event asked for, and
\* both are the first in the order of the collection of the events whose
\* date and time are the greatest: of several that share it, and of all
\* the events when every date is malformed.
C39_LatestIsFirstOfRecent ==
  /\ (Answered("stats") /\ Len(Events) > 0) =>
       LET recent == get_recent_sismos(last.sismos, 1)
       IN /\ Len(recent) = 1
          /\ last.body.ultimo_sismo = recent[1]
          /\ EarliestOfLatest(last.body.ultimo_sismo)
          /\ (\A i \in 1..Len(Events) : Malformed(Events[i])) =>
               last.body.ultimo_sismo = Events[1]
  /\ (Answered("recent") /\ last.arg = 1 /\ Len(Events) > 0) =>
       /\ last.body.total = 1
       /\ last.body.sismos[1] = get_sismos_stats(last.sismos, now).ultimo_sismo
       /\ EarliestOfLatest(last.body.sismos[1])

C39_Witness ==
  /\ Answered("stats")
  /\ Len(Events) = 3
  /\ Malformed(Events[1])
  /\ ~Malformed(Events[2]) /\ ~Malformed(Events[3])
  /\ Events[2] # Events[3]
  /\ DateKey(Events[2]) = DateKey(Events[3])
  /\ last.body.ultimo_sismo = Events[2]
  /\ get_recent_sismos(last.sismos, 1) = <<Events[2]>>

====
